---- MODULE Spec2Model ----
(***************************************************************************)
(* codex-teams: the worker state reconciler (scripts/py/state_model.py),   *)
(* the task board model (scripts/py/todo_parser.py) and the scheduler      *)
(* (scripts/py/engine.py, _active_maps and _ready_payload).                *)
(*                                                                         *)
(* Python strings that the code inspects character by character (task      *)
(* ids, owners, dependency fields, inventory keys, pids, paths) are        *)
(* sequences of one-character strings; the empty string is <<>>.           *)
(* Enumerated tokens that are only compared as a whole (task status,       *)
(* worker state, exclusion reason and source) are TLA+ strings.            *)
(***************************************************************************)
EXTENDS Integers, Sequences, FiniteSets, TLC

VARIABLES
    pc,                   \* position of the invocation
    tasks,                \* parse_todo: the board rows, in file order
    gates,                \* parse_todo: gate id -> "DONE" / "PENDING"
    task_specs,           \* task-spec collaborator: task id -> {exists, valid}
    pid_rows,             \* load_pid_inventory result
    lock_rows,            \* load_lock_inventory result
    max_start,            \* args.max_start / runtime.max_start
    records,              \* classify_records result
    active_by_task,       \* _active_maps: task id -> {reason, source}
    active_owner_keys,    \* _active_maps: set of busy owner keys
    conflict_by_task,     \* _active_maps: task id -> "active_signal_conflict"
    i,                    \* index of the next board row of the for loop
    ready_tasks,          \* _ready_payload: READY rows
    excluded_tasks,       \* _ready_payload: EXCLUDED rows
    scheduled_owner_keys, \* _ready_payload: owners made READY in this pass
    call,                 \* one call of a function: its arguments and its result
    orch_dir,             \* the directory of the liveness files (*.pid)
    lock_dir,             \* the directory of the lock files (*.lock)
    scan,                 \* one inventory scan, file by file and field by field
    status,               \* one `status` invocation: its position and its payload
    todo_file,            \* the task board file
    session               \* one parse_session_structured invocation, event by event

\* the variables of one `ready` invocation
sched_vars == <<pc, tasks, gates, task_specs, pid_rows, lock_rows, max_start, records,
                active_by_task, active_owner_keys, conflict_by_task, i, ready_tasks,
                excluded_tasks, scheduled_owner_keys>>

\* the variables outside the `ready` invocation
aux_vars == <<call, orch_dir, lock_dir, scan, status, todo_file, session>>

vars == <<sched_vars, aux_vars>>

-----------------------------------------------------------------------------
(* Bounds of the model.                                                    *)

\* longest board (number of task rows)
MaxTasks == 2
\* largest max-start limit tried (0 = unlimited)
MaxStartLimit == 1
\* most rows in each inventory list handed to classify_records (ClassifySpec)
MaxRows == 1
\* longest pid field handed to is_pid_alive (CallSpec)
MaxPidLen == 3
\* most comma-separated tokens in a deps field handed to deps_ready (CallSpec)
MaxDepTokens == 2
\* most liveness files in the inventory directory (FilesSpec)
MaxPidFiles == 2
\* most rows in each inventory list when rows repeat keys (KeysSpec)
MaxKeyRows == 2
\* most files in the directory when a scan starts (ScanSpec)
MaxScanFiles == 2
\* longest record list handed to _active_maps directly (RecordsSpec)
MaxRecords == 2
\* most files of a directory that is scanned while files are rewritten (RewriteSpec)
MaxRewriteFiles == 1

\* most lines of a board text handed to the gate loop (GateSpec)
MaxGateLines == 2

\* longest path text handed to parse_todo (ParseSpec)
MaxPathLen == 3
\* largest column index written in a configuration file (ConfigSpec)
MaxColIndex == 2
\* longest event log handed to parse_session_structured (DeltaSpec, ItemSpec)
MaxEvents == 3
\* most lines of a raw capture and of a log tail (ViewSpec)
MaxLogLines == 2
\* largest max_blocks a caller hands to parse_session_structured (ViewSpec)
MaxBlocksArg == 2

-----------------------------------------------------------------------------
(* Characters and strings.                                                 *)

\* Characters in ascending code point order (the order Python compares by).
Ascii ==
    <<" ", "-", ".", "/",
      "0", "1", "2", "3", "4", "5", "6", "7", "8", "9", ":",
      "A", "B", "C", "D", "E", "F", "G", "H", "I", "J", "K", "L", "M",
      "N", "O", "P", "Q", "R", "S", "T", "U", "V", "W", "X", "Y", "Z", "_",
      "a", "b", "c", "d", "e", "f", "g", "h", "i", "j", "k", "l", "m",
      "n", "o", "p", "q", "r", "s", "t", "u", "v", "w", "x", "y", "z">>

Ord(ch) == CHOOSE n \in 1..Len(Ascii) : Ascii[n] = ch

Digits == {"0", "1", "2", "3", "4", "5", "6", "7", "8", "9"}

UpperSeq ==
    <<"A", "B", "C", "D", "E", "F", "G", "H", "I", "J", "K", "L", "M",
      "N", "O", "P", "Q", "R", "S", "T", "U", "V", "W", "X", "Y", "Z">>

LowerSeq ==
    <<"a", "b", "c", "d", "e", "f", "g", "h", "i", "j", "k", "l", "m",
      "n", "o", "p", "q", "r", "s", "t", "u", "v", "w", "x", "y", "z">>

Range(f) == {f[x] : x \in DOMAIN f}

Uppers == Range(UpperSeq)
Alnums == Digits \cup Range(UpperSeq) \cup Range(LowerSeq)

\* str.isalnum on one character
IsAlnum(ch) == ch \in Alnums

\* str.lower on one character
Lower(ch) ==
    IF ch \in Uppers
    THEN LowerSeq[CHOOSE n \in 1..Len(UpperSeq) : UpperSeq[n] = ch]
    ELSE ch

\* str.isdigit: non-empty and digits only
IsDigitStr(s) == Len(s) > 0 /\ \A n \in 1..Len(s) : s[n] \in Digits

\* Python's string order: lexicographic by code point, a proper prefix first.
RECURSIVE StrLess(_, _)
StrLess(a, b) ==
    IF Len(b) = 0 THEN FALSE
    ELSE IF Len(a) = 0 THEN TRUE
    ELSE IF a[1] # b[1] THEN Ord(a[1]) < Ord(b[1])
    ELSE StrLess(Tail(a), Tail(b))

RECURSIVE SortedSeq_Descending(_)
SortedSeq_Descending(S) ==
    IF S = {} THEN <<>>
    ELSE LET m == CHOOSE x \in S : \A y \in S \ {x} : StrLess(y, x)
         IN  <<m>> \o SortedSeq_Descending(S \ {m})

\* sorted(keys): ascending sequence of the elements of a finite set of strings
RECURSIVE SortedSeq(_)
SortedSeq(S) ==
    IF S = {} THEN <<>>
    ELSE LET m == CHOOSE x \in S : \A y \in S \ {x} : StrLess(x, y)
         IN  <<m>> \o SortedSeq(S \ {m})

\* None, as `x or None` yields it for a falsy x
None == <<"<", "N", "o", "n", "e", ">">>

\* bool(x) of a string or None
Truthy(x) == x # <<>> /\ x # None

\* dictionaries: finite functions
EmptyMap == [x \in {} |-> <<>>]
Put(f, k, v) == [x \in DOMAIN f \cup {k} |-> IF x = k THEN v ELSE f[x]]
Get(f, k, default) == IF k \in DOMAIN f THEN f[k] ELSE default

\* Python's `a or b` on strings
Or(a, b) == IF Truthy(a) THEN a ELSE b

\* dict.get(field, "") of an inventory row; {} has no field at all
RowGet(row, f) == IF f \in DOMAIN row THEN row[f] ELSE <<>>

-----------------------------------------------------------------------------
(* scripts/py/state_model.py                                               *)

ACTIVE_STATES == {"RUNNING", "LOCKED", "FINALIZING"}

STALE_STATES ==
    {"LOCK_STALE", "FINALIZING_EXITED", "ORPHAN_LOCK", "ORPHAN_PID", "MISSING_WORKTREE"}

is_active_state_NoLocked(state) == state \in ACTIVE_STATES \ {"LOCKED"}

is_active_state_WithLockStale(state) == state \in ACTIVE_STATES \cup {"LOCK_STALE"}

is_active_state(state) == state \in ACTIVE_STATES

is_stale_state_DropOrphanPid(state) == state \in STALE_STATES \ {"ORPHAN_PID"}

is_stale_state(state) == state \in STALE_STATES

\* The process table and the directories of the host: pid 100 is a live
\* process, pid 200 is not found; /wt is an existing directory.
Pid100 == <<"1", "0", "0">>
Pid200 == <<"2", "0", "0">>
WtOk == <<"/", "w", "t">>
WtGone == <<"/", "g", "o", "n", "e">>

\* int(s) of a string of decimal digits
RECURSIVE ParseInt(_)
ParseInt(s) ==
    IF s = <<>> THEN 0
    ELSE 10 * ParseInt(SubSeq(s, 1, Len(s) - 1)) + (Ord(s[Len(s)]) - Ord("0"))

\* os.kill(pid, 0): "ok", or the errno of the OSError it raises.  Pid 0
\* addresses the caller's own process group, which always exists; pid 1
\* belongs to another user (PermissionError); pid 100 is a live process of
\* the caller; no other process exists (ProcessLookupError).
os_kill(pid) ==
    IF pid = 0 \/ pid = 100 THEN "ok"
    ELSE IF pid = 1 THEN "EPERM"
    ELSE "ESRCH"

\* Path(p).exists()
path_exists(p) == p = WtOk

\* `except OSError` catches PermissionError and ProcessLookupError alike
is_pid_alive(pid_value) ==
    IF ~Truthy(pid_value) \/ ~IsDigitStr(pid_value) THEN FALSE
    ELSE os_kill(ParseInt(pid_value)) = "ok"

\* "PIDONLY:" and "LOCKONLY:"
PIDONLY == <<"P", "I", "D", "O", "N", "L", "Y", ":">>
LOCKONLY == <<"L", "O", "C", "K", "O", "N", "L", "Y", ":">>
DotPid == <<".", "p", "i", "d">>
DotLock == <<".", "l", "o", "c", "k">>

\* the row of a liveness file without the path of the file
PidRow_NoPidFile(stem, task_id, owner, scope, pid, worktree) ==
    [key |-> IF task_id # <<>> THEN task_id ELSE PIDONLY \o stem,
     task_id |-> task_id,
     owner |-> owner,
     scope |-> scope,
     pid |-> pid,
     pid_file |-> <<>>,
     worktree |-> worktree]

\* the row of a liveness file with the key always made from the file name
PidRow_StemKey(stem, task_id, owner, scope, pid, worktree) ==
    [key |-> PIDONLY \o stem,
     task_id |-> task_id,
     owner |-> owner,
     scope |-> scope,
     pid |-> pid,
     pid_file |-> stem \o DotPid,
     worktree |-> worktree]

\* The row load_pid_inventory appends for the liveness file <stem>.pid with
\* these field values (tmux_session, launch_backend and log_file are carried
\* through unread and are left out).
PidRow(stem, task_id, owner, scope, pid, worktree) ==
    [key |-> IF Truthy(task_id) THEN task_id ELSE PIDONLY \o stem,
     task_id |-> task_id,
     owner |-> owner,
     scope |-> scope,
     pid |-> pid,
     pid_file |-> stem \o DotPid,
     worktree |-> worktree]

\* The row load_lock_inventory appends for the lock file <stem>.lock.
LockRow(stem, task_id, owner, scope, worktree) ==
    [key |-> IF Truthy(task_id) THEN task_id
             ELSE LOCKONLY \o scope \o <<":">> \o owner \o <<":">> \o stem \o DotLock,
     task_id |-> task_id,
     owner |-> owner,
     scope |-> scope,
     lock_file |-> stem \o DotLock,
     worktree |-> worktree]

\* A directory is [exists, files]; files maps the stem of a file name to the
\* fields read_field finds in the file (a field the file lacks reads as "").
\* sorted(base.glob("*" + suffix)): the file names in ascending order
SortedNames(dir, suffix) == SortedSeq({stem \o suffix : stem \in DOMAIN dir.files})

StemOf(name, suffix) == SubSeq(name, 1, Len(name) - Len(suffix))

load_pid_inventory(dir) ==
    IF ~dir.exists THEN <<>>
    ELSE LET names == SortedNames(dir, DotPid)
         IN  [n \in 1..Len(names) |->
                LET stem == StemOf(names[n], DotPid)
                    f == dir.files[stem]
                IN  PidRow(stem, f.task_id, f.owner, f.scope, f.pid, f.worktree)]

load_lock_inventory(dir) ==
    IF ~dir.exists THEN <<>>
    ELSE LET names == SortedNames(dir, DotLock)
         IN  [n \in 1..Len(names) |->
                LET stem == StemOf(names[n], DotLock)
                    f == dir.files[stem]
                IN  LockRow(stem, f.task_id, f.owner, f.scope, f.worktree)]

\* by_key.setdefault(row["key"], {})[slot] = row, for every row in order
RECURSIVE GroupRows(_, _, _)
GroupRows(by_key, rows, slot) ==
    IF rows = <<>> THEN by_key
    ELSE LET row == Head(rows)
             old == Get(by_key, row.key, EmptyMap)
         IN  GroupRows(Put(by_key, row.key, Put(old, slot, row)), Tail(rows), slot)

\* The if/elif chain that derives the state of one key.
DeriveState_AliveFirst(worktree, worktree_exists, pid_file, lock_file, pid_alive) ==
    IF Truthy(pid_file) /\ Truthy(lock_file) /\ pid_alive THEN "RUNNING"
    ELSE IF Truthy(worktree) /\ ~worktree_exists THEN
        IF Truthy(lock_file) /\ ~Truthy(pid_file) THEN "ORPHAN_LOCK"
        ELSE IF Truthy(pid_file) /\ ~Truthy(lock_file) THEN "ORPHAN_PID"
        ELSE "MISSING_WORKTREE"
    ELSE IF Truthy(pid_file) /\ Truthy(lock_file) THEN "LOCK_STALE"
    ELSE IF Truthy(pid_file) /\ ~Truthy(lock_file) /\ pid_alive THEN "FINALIZING"
    ELSE IF Truthy(pid_file) /\ ~Truthy(lock_file) THEN "FINALIZING_EXITED"
    ELSE IF Truthy(lock_file) THEN "LOCKED"
    ELSE "UNKNOWN"

DeriveState(worktree, worktree_exists, pid_file, lock_file, pid_alive) ==
    IF Truthy(worktree) /\ ~worktree_exists THEN
        IF Truthy(lock_file) /\ ~Truthy(pid_file) THEN "ORPHAN_LOCK"
        ELSE IF Truthy(pid_file) /\ ~Truthy(lock_file) THEN "ORPHAN_PID"
        ELSE "MISSING_WORKTREE"
    ELSE IF Truthy(pid_file) /\ Truthy(lock_file) /\ pid_alive THEN "RUNNING"
    ELSE IF Truthy(pid_file) /\ Truthy(lock_file) THEN "LOCK_STALE"
    ELSE IF Truthy(pid_file) /\ ~Truthy(lock_file) /\ pid_alive THEN "FINALIZING"
    ELSE IF Truthy(pid_file) /\ ~Truthy(lock_file) THEN "FINALIZING_EXITED"
    ELSE IF Truthy(lock_file) THEN "LOCKED"
    ELSE "UNKNOWN"

\* The WorkerRecord of one key (pid, tmux_session, launch_backend and
\* log_file are carried through and are left out).
ClassifyKey(key, combined) ==
    LET pid_row == Get(combined, "pid", EmptyMap)
        lock_row == Get(combined, "lock", EmptyMap)
        task_id == Or(RowGet(pid_row, "task_id"), Or(RowGet(lock_row, "task_id"), key))
        owner == Or(RowGet(pid_row, "owner"), Or(RowGet(lock_row, "owner"), <<>>))
        scope == Or(RowGet(pid_row, "scope"), Or(RowGet(lock_row, "scope"), <<>>))
        worktree == Or(RowGet(pid_row, "worktree"), Or(RowGet(lock_row, "worktree"), <<>>))
        pid == RowGet(pid_row, "pid")
        pid_file == RowGet(pid_row, "pid_file")
        lock_file == RowGet(lock_row, "lock_file")
        pid_alive == Truthy(pid_file) /\ is_pid_alive(pid)
        worktree_exists == Truthy(worktree) /\ path_exists(worktree)
        state == DeriveState(worktree, worktree_exists, pid_file, lock_file, pid_alive)
    IN  [key |-> key,
         task_id |-> task_id,
         owner |-> owner,
         scope |-> scope,
         state |-> state,
         pid_alive |-> pid_alive,
         pid_file |-> Or(pid_file, None),
         lock_file |-> Or(lock_file, None),
         worktree |-> Or(worktree, None),
         worktree_exists |-> worktree_exists,
         stale |-> is_stale_state(state)]

classify_records(p_rows, l_rows) ==
    LET by_key == GroupRows(GroupRows(EmptyMap, p_rows, "pid"), l_rows, "lock")
        keys == SortedSeq(DOMAIN by_key)
    IN  [n \in 1..Len(keys) |-> ClassifyKey(keys[n], by_key[keys[n]])]

-----------------------------------------------------------------------------
(* scripts/py/config.py                                                    *)

\* "".join(ch.lower() for ch in owner if ch.isalnum())
RECURSIVE owner_key(_)
owner_key(owner) ==
    IF owner = <<>> THEN <<>>
    ELSE IF IsAlnum(Head(owner)) THEN <<Lower(Head(owner))>> \o owner_key(Tail(owner))
    ELSE owner_key(Tail(owner))

\* The [owners] table of the configuration: AgA -> s1, AgB -> s2.
AgA == <<"A", "g", "A">>
AgB == <<"A", "g", "B">>
ScopeS1 == <<"s", "1">>
ScopeS2 == <<"s", "2">>
ConfigOwners == Put(Put(EmptyMap, AgA, ScopeS1), AgB, ScopeS2)

\* resolve_context: {owner_key(k): v for k, v in owners_raw.items()}
owners_by_key ==
    [k \in {owner_key(o) : o \in DOMAIN ConfigOwners} |->
        ConfigOwners[CHOOSE o \in DOMAIN ConfigOwners : owner_key(o) = k]]

-----------------------------------------------------------------------------
(* scripts/py/todo_parser.py                                               *)

\* str.strip() of blanks
RECURSIVE LStrip(_)
LStrip(s) == IF s # <<>> /\ Head(s) = " " THEN LStrip(Tail(s)) ELSE s

RECURSIVE RStrip(_)
RStrip(s) ==
    IF s # <<>> /\ s[Len(s)] = " " THEN RStrip(SubSeq(s, 1, Len(s) - 1)) ELSE s

Strip(s) == RStrip(LStrip(s))

\* str.split(","): the pieces between the commas, empty pieces included
RECURSIVE SplitComma(_, _)
SplitComma(s, cur) ==
    IF s = <<>> THEN <<cur>>
    ELSE IF Head(s) = "," THEN <<cur>> \o SplitComma(Tail(s), <<>>)
    ELSE SplitComma(Tail(s), Append(cur, Head(s)))

AllDigits(s, from, to) == from <= to /\ \A n \in from..to : s[n] \in Digits

\* re.fullmatch(r"G\d+", dep)
MatchesGateId(dep) == Len(dep) >= 2 /\ dep[1] = "G" /\ AllDigits(dep, 2, Len(dep))

\* re.fullmatch(r"T\d+-\d+", dep)
MatchesTaskId(dep) ==
    /\ Len(dep) >= 4
    /\ dep[1] = "T"
    /\ \E k \in 3..(Len(dep) - 1) :
          dep[k] = "-" /\ AllDigits(dep, 2, k - 1) /\ AllDigits(dep, k + 1, Len(dep))

\* {task["id"]: task["status"] for task in tasks}: the last row of an id wins
build_indexes(rows) ==
    [id \in {rows[n].id : n \in 1..Len(rows)} |->
        rows[CHOOSE n \in 1..Len(rows) :
                rows[n].id = id /\ \A m \in (n + 1)..Len(rows) : rows[m].id # id].status]

RECURSIVE DepsLoop_AbsentIsDone(_, _, _)
DepsLoop_AbsentIsDone(tokens, task_status, gate_status) ==
    IF tokens = <<>> THEN TRUE
    ELSE LET dep == Strip(Head(tokens))
         IN  IF dep = <<>> THEN DepsLoop_AbsentIsDone(Tail(tokens), task_status, gate_status)
             ELSE IF MatchesGateId(dep) THEN
                 IF Get(gate_status, dep, "DONE") # "DONE" THEN FALSE
                 ELSE DepsLoop_AbsentIsDone(Tail(tokens), task_status, gate_status)
             ELSE IF MatchesTaskId(dep) THEN
                 IF Get(task_status, dep, "DONE") # "DONE" THEN FALSE
                 ELSE DepsLoop_AbsentIsDone(Tail(tokens), task_status, gate_status)
             ELSE FALSE

\* the for loop of deps_ready over the split tokens
RECURSIVE DepsLoop(_, _, _)
DepsLoop(tokens, task_status, gate_status) ==
    IF tokens = <<>> THEN TRUE
    ELSE LET dep == Strip(Head(tokens))
         IN  IF dep = <<>> THEN DepsLoop(Tail(tokens), task_status, gate_status)
             ELSE IF MatchesGateId(dep) THEN
                 IF Get(gate_status, dep, "") # "DONE" THEN FALSE
                 ELSE DepsLoop(Tail(tokens), task_status, gate_status)
             ELSE IF MatchesTaskId(dep) THEN
                 IF Get(task_status, dep, "") # "DONE" THEN FALSE
                 ELSE DepsLoop(Tail(tokens), task_status, gate_status)
             ELSE FALSE

deps_ready_NoSentinel(deps, task_status, gate_status) ==
    DepsLoop(SplitComma(Strip(deps), <<>>), task_status, gate_status)

deps_ready(deps, task_status, gate_status) ==
    LET raw == Strip(deps)
    IN  IF raw = <<>> \/ raw = <<"-">> THEN TRUE
        ELSE DepsLoop(SplitComma(raw, <<>>), task_status, gate_status)

\* str.split(sep) for a one-character separator
RECURSIVE SplitAt(_, _, _)
SplitAt(s, sep, cur) ==
    IF s = <<>> THEN <<cur>>
    ELSE IF Head(s) = sep THEN <<cur>> \o SplitAt(Tail(s), sep, <<>>)
    ELSE SplitAt(Tail(s), sep, Append(cur, Head(s)))

\* sep.join(parts)
RECURSIVE Join(_, _)
Join(parts, sep) ==
    IF parts = <<>> THEN <<>>
    ELSE IF Len(parts) = 1 THEN parts[1]
    ELSE parts[1] \o sep \o Join(Tail(parts), sep)

\* the number of leading "/" of a path text
RECURSIVE LeadingSlashes(_)
LeadingSlashes(s) ==
    IF s # <<>> /\ Head(s) = "/" THEN 1 + LeadingSlashes(Tail(s)) ELSE 0

\* the components pathlib keeps: neither empty nor "."
RECURSIVE PathParts(_)
PathParts(parts) ==
    IF parts = <<>> THEN <<>>
    ELSE IF Head(parts) = <<>> \/ Head(parts) = <<".">> THEN PathParts(Tail(parts))
    ELSE <<Head(parts)>> \o PathParts(Tail(parts))

\* str(Path(todo_file)) on a POSIX system: repeated slashes and "." components
\* go, exactly two leading slashes stay, the empty path is "."
PathStr(path) ==
    LET n     == LeadingSlashes(path)
        root  == IF n = 0 THEN <<>> ELSE IF n = 2 THEN <<"/", "/">> ELSE <<"/">>
        parts == PathParts(SplitAt(path, "/", <<>>))
    IN  IF root = <<>> /\ parts = <<>> THEN <<".">>
        ELSE root \o Join(parts, <<"/">>)

\* the text "TODO file not found: "
TodoNotFound ==
    <<"T", "O", "D", "O", " ", "f", "i", "l", "e", " ",
      "n", "o", "t", " ", "f", "o", "u", "n", "d", ":", " ">>

parse_todo_EmptyOnMissing(todo_file_arg, file) ==
    IF ~file.exists THEN [raised |-> "none", tasks |-> <<>>, gates |-> EmptyMap]
    ELSE [raised |-> "none", tasks |-> file.tasks, gates |-> file.gates]

\* parse_todo(todo_file, schema) on the file found at the path: the outcome
\* is an exception with its message, or the returned pair (tasks, gates)
parse_todo(todo_file_arg, file) ==
    IF ~file.exists
    THEN [raised |-> "TodoError", message |-> TodoNotFound \o PathStr(todo_file_arg)]
    ELSE [raised |-> "none", tasks |-> file.tasks, gates |-> file.gates]

-----------------------------------------------------------------------------
(* scripts/py/config.py: load_config                                       *)
(* A TOML value is a record tagged with its Python type; a table maps its  *)
(* keys to values.  The [repo] table and the keys that load_config does    *)
(* not look at are left out of the tables.                                 *)

TomlInt(n) == [type |-> "int", num |-> n]
TomlBool(b) == [type |-> "bool", flag |-> b]
TomlStr(s) == [type |-> "str", text |-> s]
TomlList(q) == [type |-> "list", list |-> q]
TomlTable(f) == [type |-> "table", table |-> f]

\* isinstance(value, dict)
IsTable(v) == v.type = "table"

\* isinstance(value, int): bool is a subclass of int in Python
IsInstanceInt(v) == v.type \in {"int", "bool"}

\* the number an int instance compares as: True is 1 and False is 0
IntOf(v) == IF v.type = "bool" THEN (IF v.flag THEN 1 ELSE 0) ELSE v.num

\* str(value) of a string or a bool
StrOf(v) ==
    IF v.type = "bool"
    THEN (IF v.flag THEN <<"T", "r", "u", "e">> ELSE <<"F", "a", "l", "s", "e">>)
    ELSE v.text

\* str.lower()
LowerStr(s) == [n \in 1..Len(s) |-> Lower(s[n])]

Tmux == <<"t", "m", "u", "x">>
Auto == <<"a", "u", "t", "o">>
CodexExec == <<"c", "o", "d", "e", "x", "_", "e", "x", "e", "c">>

LaunchBackends == {Auto, Tmux, CodexExec}

DEFAULT_CONFIG ==
    [owners  |-> TomlTable([o \in DOMAIN ConfigOwners |-> TomlStr(ConfigOwners[o])]),
     runtime |-> TomlTable([max_start |-> TomlInt(0), launch_backend |-> TomlStr(Tmux)]),
     todo    |-> TomlTable([id_col |-> TomlInt(2), title_col |-> TomlInt(3), owner_col |-> TomlInt(4),
                        deps_col |-> TomlInt(5), status_col |-> TomlInt(7),
                        done_keywords |-> TomlList(<<TomlStr(<<"D", "O", "N", "E">>)>>)])]

\* _deep_merge(base, incoming): tables merge key by key, anything else is
\* replaced by the incoming value
RECURSIVE deep_merge(_, _)
deep_merge(base, incoming) ==
    [k \in DOMAIN base \cup DOMAIN incoming |->
        IF k \notin DOMAIN incoming THEN base[k]
        ELSE IF k \in DOMAIN base /\ IsTable(base[k]) /\ IsTable(incoming[k])
             THEN TomlTable(deep_merge(base[k].table, incoming[k].table))
             ELSE incoming[k]]

\* the keys of the loop over the column indices, in its order
TodoColKeys == <<"id_col", "title_col", "owner_col", "deps_col", "status_col">>

\* the configuration file is [exists, parsed]: _bootstrap_config_if_missing
\* writes the defaults when the file is missing
bootstrap_config_if_missing(cfg) ==
    IF cfg.exists THEN cfg ELSE [exists |-> TRUE, parsed |-> DEFAULT_CONFIG]

ConfigError(message) == [raised |-> "ConfigError", message |-> message]

\* load_config on the parsed configuration file: the outcome is a
\* ConfigError with its message, or the returned merged configuration
load_config(parsed) ==
    LET merged  == deep_merge(DEFAULT_CONFIG, parsed)
        owners  == merged["owners"]
        todo    == merged["todo"].table
        bad     == {n \in 1..Len(TodoColKeys) :
                       \/ ~IsInstanceInt(todo[TodoColKeys[n]])
                       \/ IntOf(todo[TodoColKeys[n]]) < 1}
        first   == CHOOSE n \in bad : \A m \in bad : n <= m
        words   == todo["done_keywords"]
        backend == LowerStr(Strip(StrOf(merged["runtime"].table["launch_backend"])))
    IN  IF ~IsTable(owners) \/ DOMAIN owners.table = {}
        THEN ConfigError(<<"[owners] must be a non-empty table">>)
        ELSE IF bad # {}
        THEN ConfigError(<<"todo.", TodoColKeys[first], " must be an integer >= 1">>)
        ELSE IF words.type # "list" \/ words.list = <<>>
        THEN ConfigError(<<"todo.done_keywords must be a non-empty list">>)
        ELSE IF backend \notin LaunchBackends
        THEN ConfigError(<<"runtime.launch_backend must be one of: auto, tmux, codex_exec">>)
        ELSE [raised |-> "none",
              config |-> [merged EXCEPT !["runtime"] =
                  TomlTable([merged["runtime"].table EXCEPT !["launch_backend"] = TomlStr(backend)])]]

-----------------------------------------------------------------------------
(* scripts/py/engine.py: _active_maps                                      *)

\* The first loop of _active_maps over the records, in order.
\* acc = [by_task, owner_keys, task_active_records]
RECURSIVE ActiveLoop(_, _)
ActiveLoop(rows, acc) ==
    IF rows = <<>> THEN acc
    ELSE LET row == Head(rows)
             task_id == Or(row.task_id, <<>>)
         IN  IF ~Truthy(task_id) \/ ~is_active_state(row.state)
             THEN ActiveLoop(Tail(rows), acc)
             ELSE LET tar == Put(acc.task_active_records, task_id,
                                 Append(Get(acc.task_active_records, task_id, <<>>), row))
                      owner == Or(row.owner, <<>>)
                      owners == IF Truthy(owner)
                                THEN acc.owner_keys \cup {owner_key(owner)}
                                ELSE acc.owner_keys
                      has_alive_pid == row.pid_alive
                      has_lock == Truthy(row.lock_file)
                      by_task ==
                          IF has_alive_pid
                          THEN Put(acc.by_task, task_id,
                                   [reason |-> "active_worker", source |-> "pid"])
                          ELSE IF has_lock /\ task_id \notin DOMAIN acc.by_task
                          THEN Put(acc.by_task, task_id,
                                   [reason |-> "active_lock", source |-> "lock"])
                          ELSE acc.by_task
                  IN  ActiveLoop(Tail(rows),
                                 [by_task |-> by_task, owner_keys |-> owners,
                                  task_active_records |-> tar])

\* The second loop: is the task id with these active records a conflict?
IsConflict_OwnersDiffer(rows) ==
    LET owner_keys == {owner_key(Or(rows[n].owner, <<>>)) :
                          n \in {m \in 1..Len(rows) : Truthy(Or(rows[m].owner, <<>>))}}
        has_lock == \E n \in 1..Len(rows) : Truthy(rows[n].lock_file)
        has_pid == \E n \in 1..Len(rows) : rows[n].pid_alive
    IN  Len(rows) > 1 /\ has_lock /\ has_pid /\ Cardinality(owner_keys) > 1

IsConflict(rows) ==
    LET owner_keys == {owner_key(Or(rows[n].owner, <<>>)) :
                          n \in {m \in 1..Len(rows) : Truthy(Or(rows[m].owner, <<>>))}}
        has_lock == \E n \in 1..Len(rows) : Truthy(rows[n].lock_file)
        has_pid == \E n \in 1..Len(rows) : rows[n].pid_alive
    IN  Len(rows) > 1 /\ has_lock /\ has_pid
        /\ (Cardinality(owner_keys) > 1 \/ Len(rows) > 1)

active_maps(recs) ==
    LET acc == ActiveLoop(recs, [by_task |-> EmptyMap, owner_keys |-> {},
                                 task_active_records |-> EmptyMap])
        tar == acc.task_active_records
    IN  [active_by_task |-> acc.by_task,
         active_owner_keys |-> acc.owner_keys,
         conflict_by_task |->
             [t \in {u \in DOMAIN tar : IsConflict(tar[u])} |-> "active_signal_conflict"]]

-----------------------------------------------------------------------------
(* scripts/py/engine.py: _ready_payload                                    *)

\* evaluate_task_spec(repo_root, task_id): what the collaborator may answer
SpecResults ==
    {[exists |-> FALSE, valid |-> FALSE],
     [exists |-> TRUE, valid |-> FALSE],
     [exists |-> TRUE, valid |-> TRUE]}

ExcludedRow(task, scope, reason, source) ==
    [task_id |-> task.id, owner |-> task.owner, scope |-> scope, deps |-> task.deps,
     status |-> task.status, reason |-> reason, source |-> source]

ReadyRow(task, scope) ==
    [task_id |-> task.id, owner |-> task.owner, owner_key |-> owner_key(task.owner),
     scope |-> scope, deps |-> task.deps, status |-> task.status]

\* The board file is [exists, header, tasks, gates]: the header row of its
\* table and what parse_todo reads from it.  ensure_todo_file writes a board
\* with this header and no task row when the file is missing.
BootstrapHeader == <<"Area", "ID", "Title", "Owner", "Deps", "Notes", "Status">>

ensure_todo_file(file) ==
    IF file.exists THEN file
    ELSE [exists |-> TRUE, header |-> BootstrapHeader, tasks |-> <<>>, gates |-> EmptyMap]

\* ensure_todo_file(ctx["todo_file"]); tasks, gates = parse_todo(...)
EnsureAndParse ==
    /\ pc = "start"
    /\ todo_file' = ensure_todo_file(todo_file)
    /\ tasks' = IF todo_file'.exists THEN todo_file'.tasks ELSE <<>>
    /\ gates' = IF todo_file'.exists THEN todo_file'.gates ELSE EmptyMap
    /\ pc' = "load"
    /\ UNCHANGED <<task_specs, pid_rows, lock_rows, max_start, records,
                   active_by_task, active_owner_keys, conflict_by_task, i,
                   ready_tasks, excluded_tasks, scheduled_owner_keys>>
    /\ UNCHANGED <<call, orch_dir, lock_dir, scan, status, session>>

\* lock_rows = load_lock_inventory(...); pid_rows = load_pid_inventory(...)
LoadInventories ==
    /\ pc = "load"
    /\ lock_rows' = load_lock_inventory(lock_dir)
    /\ pid_rows' = load_pid_inventory(orch_dir)
    /\ pc' = "scan"
    /\ UNCHANGED <<tasks, gates, task_specs, max_start, records,
                   active_by_task, active_owner_keys, conflict_by_task, i,
                   ready_tasks, excluded_tasks, scheduled_owner_keys>>
    /\ UNCHANGED aux_vars

\* records = classify_records(pid_rows, lock_rows)
ClassifyRecords ==
    /\ pc = "scan"
    /\ records' = classify_records(pid_rows, lock_rows)
    /\ pc' = "classified"
    /\ UNCHANGED <<tasks, gates, task_specs, pid_rows, lock_rows, max_start,
                   active_by_task, active_owner_keys, conflict_by_task, i,
                   ready_tasks, excluded_tasks, scheduled_owner_keys>>
    /\ UNCHANGED aux_vars

\* active_by_task, active_owner_keys, conflict_by_task = _active_maps(records)
ActiveMaps ==
    /\ pc = "classified"
    /\ LET m == active_maps(records)
       IN  /\ active_by_task' = m.active_by_task
           /\ active_owner_keys' = m.active_owner_keys
           /\ conflict_by_task' = m.conflict_by_task
    /\ pc' = "loop"
    /\ i' = 1
    /\ UNCHANGED <<tasks, gates, task_specs, pid_rows, lock_rows, max_start, records,
                   ready_tasks, excluded_tasks, scheduled_owner_keys>>
    /\ UNCHANGED aux_vars

\* the limit test after a task is made READY
LimitReached_OffByOne(limit, n_ready) == limit > 0 /\ n_ready > limit

LimitReached(limit, n_ready) == limit > 0 /\ n_ready >= limit

SkipTask_MarksOwner ==
    /\ i' = i + 1
    /\ scheduled_owner_keys' = scheduled_owner_keys \cup {owner_key(tasks[i].owner)}
    /\ UNCHANGED <<pc, task_specs, ready_tasks, excluded_tasks>>

\* `continue` without an output row
SkipTask ==
    /\ i' = i + 1
    /\ UNCHANGED <<pc, task_specs, ready_tasks, excluded_tasks, scheduled_owner_keys>>

ExcludeTask_NoAppend(task, scope, reason, source) ==
    /\ i' = i + 1
    /\ UNCHANGED <<pc, ready_tasks, excluded_tasks, scheduled_owner_keys>>

\* excluded_tasks.append({...}); continue
ExcludeTask(task, scope, reason, source) ==
    /\ excluded_tasks' = Append(excluded_tasks, ExcludedRow(task, scope, reason, source))
    /\ i' = i + 1
    /\ UNCHANGED <<pc, ready_tasks, scheduled_owner_keys>>

\* ready_tasks.append({...}); scheduled_owner_keys.add(...); break at the limit
MakeReady(task, scope) ==
    /\ ready_tasks' = Append(ready_tasks, ReadyRow(task, scope))
    /\ scheduled_owner_keys' = scheduled_owner_keys \cup {owner_key(task.owner)}
    /\ i' = i + 1
    /\ pc' = IF LimitReached(max_start, Len(ready_tasks) + 1) THEN "done" ELSE "loop"
    /\ UNCHANGED excluded_tasks

\* Is the owner key busy at this point of the pass?
OwnerBusy_ActiveOnly(key) == key \in active_owner_keys

OwnerBusy_ScheduledOnly(key) == key \in scheduled_owner_keys

OwnerBusy_Always(key) == TRUE

OwnerBusy(key) == key \in active_owner_keys \/ key \in scheduled_owner_keys

\* One iteration with the dependency check moved before the owner check.
ScheduleTask_DepsFirst ==
    /\ pc = "loop"
    /\ i <= Len(tasks)
    /\ LET task == tasks[i]
           task_id == task.id
           task_owner_key == owner_key(task.owner)
           scope == Get(owners_by_key, task_owner_key, None)
       IN  IF task.status # "TODO" THEN SkipTask
           ELSE IF ~Truthy(scope) THEN SkipTask
           ELSE IF task_id \in DOMAIN conflict_by_task THEN
               /\ ExcludeTask(task, scope, "active_signal_conflict", "scheduler")
               /\ UNCHANGED task_specs
           ELSE IF task_id \in DOMAIN active_by_task THEN
               /\ ExcludeTask(task, scope, active_by_task[task_id].reason,
                              active_by_task[task_id].source)
               /\ UNCHANGED task_specs
           ELSE IF ~deps_ready(task.deps, build_indexes(tasks), gates) THEN
               /\ ExcludeTask(task, scope, "deps_not_ready", "scheduler")
               /\ UNCHANGED task_specs
           ELSE IF OwnerBusy(task_owner_key) THEN
               /\ ExcludeTask(task, scope, "owner_busy", "scheduler")
               /\ UNCHANGED task_specs
           ELSE \E spec \in SpecResults :
               /\ task_specs' = Put(task_specs, task_id, spec)
               /\ IF ~spec.exists THEN
                      ExcludeTask(task, scope, "missing_task_spec", "scheduler")
                  ELSE IF ~spec.valid THEN
                      ExcludeTask(task, scope, "invalid_task_spec", "scheduler")
                  ELSE MakeReady(task, scope)
    /\ UNCHANGED <<tasks, gates, pid_rows, lock_rows, max_start, records,
                   active_by_task, active_owner_keys, conflict_by_task>>
    /\ UNCHANGED aux_vars

\* One iteration of `for task in tasks`.
ScheduleTask ==
    /\ pc = "loop"
    /\ i <= Len(tasks)
    /\ LET task == tasks[i]
           task_id == task.id
           task_owner_key == owner_key(task.owner)
           scope == Get(owners_by_key, task_owner_key, None)
       IN  IF task.status # "TODO" THEN SkipTask
           ELSE IF ~Truthy(scope) THEN SkipTask
           ELSE IF task_id \in DOMAIN conflict_by_task THEN
               /\ ExcludeTask(task, scope, "active_signal_conflict", "scheduler")
               /\ UNCHANGED task_specs
           ELSE IF task_id \in DOMAIN active_by_task THEN
               /\ ExcludeTask(task, scope, active_by_task[task_id].reason,
                              active_by_task[task_id].source)
               /\ UNCHANGED task_specs
           ELSE IF OwnerBusy(task_owner_key) THEN
               /\ ExcludeTask(task, scope, "owner_busy", "scheduler")
               /\ UNCHANGED task_specs
           ELSE \E spec \in SpecResults :
               /\ task_specs' = Put(task_specs, task_id, spec)
               /\ IF ~spec.exists THEN
                      ExcludeTask(task, scope, "missing_task_spec", "scheduler")
                  ELSE IF ~spec.valid THEN
                      ExcludeTask(task, scope, "invalid_task_spec", "scheduler")
                  ELSE IF ~deps_ready(task.deps, build_indexes(tasks), gates) THEN
                      ExcludeTask(task, scope, "deps_not_ready", "scheduler")
                  ELSE MakeReady(task, scope)
    /\ UNCHANGED <<tasks, gates, pid_rows, lock_rows, max_start, records,
                   active_by_task, active_owner_keys, conflict_by_task>>
    /\ UNCHANGED aux_vars

\* the for loop runs out of rows; the payload is returned
Return ==
    /\ pc = "loop"
    /\ i > Len(tasks)
    /\ pc' = "done"
    /\ UNCHANGED <<tasks, gates, task_specs, pid_rows, lock_rows, max_start, records,
                   active_by_task, active_owner_keys, conflict_by_task, i,
                   ready_tasks, excluded_tasks, scheduled_owner_keys>>
    /\ UNCHANGED aux_vars

-----------------------------------------------------------------------------
(* The inputs of one `ready` invocation.                                   *)

T1 == <<"T", "1", "-", "1">>
T2 == <<"T", "1", "-", "2">>
T3 == <<"T", "1", "-", "3">>
T4 == <<"T", "1", "-", "4">>
G1 == <<"G", "1">>

\* the ids of the board rows, in file order
BoardIds == <<T1, T2, T3, T4>>

\* "ag-a" names the same owner as "AgA"; "Bob" is in no [owners] table
AgA2 == <<"a", "g", "-", "a">>
Bob == <<"B", "o", "b">>
BoardOwners == {AgA, AgA2, AgB, Bob}
BoardStatuses == {"TODO", "DONE"}
BoardDeps == {<<"-">>, T2}

\* owner, deps and status of a board row: a dependency is tried on the rows
\* of the two configured spellings "AgA" and "AgB"
BoardCells ==
    {c \in BoardOwners \X BoardDeps \X BoardStatuses : c[1] \in {AgA2, Bob} => c[2] = <<"-">>}

Boards ==
    UNION {
        {[n \in 1..len |-> [id |-> BoardIds[n], owner |-> f[n][1], deps |-> f[n][2],
                            status |-> f[n][3]]] :
            f \in [1..len -> BoardCells]} :
        len \in 0..MaxTasks}

\* the liveness file w1.pid and the lock file s1.lock of one worker slot
StemW1 == <<"w", "1">>
StemW2 == <<"w", "2">>
StemW3 == <<"w", "3">>
StemS1 == <<"s", "1">>

SchedPidRows ==
    {PidRow(StemW1, T1, AgA, ScopeS1, p, w) : p \in {Pid100, Pid200}, w \in {WtOk, WtGone}}

SchedLockRows == {LockRow(StemS1, t, AgA, ScopeS1, WtOk) : t \in {<<>>, T1, T2}}

Inventories(rows) == {<<>>} \cup {<<r>> : r \in rows}

\* no function call is in progress
NoCall == [fn |-> "none"]

\* a directory that does not exist
NoDir == [exists |-> FALSE, files |-> EmptyMap]

\* no step-by-step scan is in progress
NoScan == [pc |-> "none"]

\* no `status` invocation is in progress
NoStatus == [pc |-> "none"]

\* a file that does not exist
NoFile == [exists |-> FALSE]

\* no parse_session_structured invocation is in progress
NoSession == [pc |-> "none"]

InitAux ==
    /\ call = NoCall
    /\ orch_dir = NoDir
    /\ lock_dir = NoDir
    /\ scan = NoScan
    /\ status = NoStatus
    /\ todo_file = NoFile
    /\ session = NoSession

InitOutputs ==
    /\ InitAux
    /\ task_specs = EmptyMap
    /\ active_by_task = EmptyMap
    /\ active_owner_keys = {}
    /\ conflict_by_task = EmptyMap
    /\ i = 1
    /\ ready_tasks = <<>>
    /\ excluded_tasks = <<>>
    /\ scheduled_owner_keys = {}

Init ==
    /\ pc = "scan"
    /\ tasks \in Boards
    /\ gates = Put(EmptyMap, G1, "DONE")
    /\ pid_rows \in Inventories(SchedPidRows)
    /\ lock_rows \in Inventories(SchedLockRows)
    /\ max_start \in 0..MaxStartLimit
    /\ records = <<>>
    /\ InitOutputs

NextSched == ActiveMaps \/ ScheduleTask \/ Return

Next == ClassifyRecords \/ NextSched

Spec == Init /\ [][Next]_vars

-----------------------------------------------------------------------------
(* classify_records as a function of arbitrary inventory rows: the rows    *)
(* need not come from load_pid_inventory / load_lock_inventory, so a row   *)
(* may lack its pid_file / lock_file.                                      *)

ClassifyPidRows ==
    {[PidRow(StemW1, t, AgA, ScopeS1, p, w) EXCEPT !.pid_file = f] :
        t \in {<<>>, T1}, p \in {Pid100, Pid200},
        f \in {<<>>, StemW1 \o DotPid}, w \in {<<>>, WtOk, WtGone}}

ClassifyLockRows ==
    {[LockRow(StemS1, t, AgA, ScopeS1, w) EXCEPT !.lock_file = f] :
        t \in {<<>>, T1}, f \in {<<>>, StemS1 \o DotLock}, w \in {<<>>, WtOk, WtGone}}

SeqsUpTo(S, n) == UNION {[1..len -> S] : len \in 0..n}

InitClassify ==
    /\ pc = "scan"
    /\ tasks = <<>>
    /\ gates = EmptyMap
    /\ pid_rows \in SeqsUpTo(ClassifyPidRows, MaxRows)
    /\ lock_rows \in SeqsUpTo(ClassifyLockRows, MaxRows)
    /\ max_start = 0
    /\ records = <<>>
    /\ InitOutputs

ClassifySpec == InitClassify /\ [][ClassifyRecords]_vars

-----------------------------------------------------------------------------
(* _active_maps and the scheduling loop as functions of an arbitrary list  *)
(* of worker records: several records may carry the same task id, which    *)
(* classify_records never yields.                                          *)

\* the liveness/lock rows of one key: RUNNING, LOCK_STALE, FINALIZING, LOCKED
RecordCombos(t, o) ==
    {Put(Put(EmptyMap, "pid", PidRow(StemW1, t, o, ScopeS1, Pid100, WtOk)),
         "lock", LockRow(StemS1, t, o, ScopeS1, WtOk)),
     Put(Put(EmptyMap, "pid", PidRow(StemW1, t, o, ScopeS1, Pid200, WtOk)),
         "lock", LockRow(StemS1, t, o, ScopeS1, WtOk)),
     Put(EmptyMap, "pid", PidRow(StemW1, t, o, ScopeS1, Pid100, WtOk)),
     Put(EmptyMap, "lock", LockRow(StemS1, t, o, ScopeS1, WtOk))}

RecordChoices ==
    UNION {{ClassifyKey(to[1], c) : c \in RecordCombos(to[1], to[2])} :
              to \in {T1, T2} \X {AgA, AgB}}

RecordBoards ==
    UNION {
        {[n \in 1..len |-> [id |-> BoardIds[n], owner |-> f[n], deps |-> <<"-">>,
                            status |-> "TODO"]] :
            f \in [1..len -> {AgA, Bob}]} :
        len \in 0..MaxTasks}

InitRecords ==
    /\ pc = "classified"
    /\ tasks \in RecordBoards
    /\ gates = EmptyMap
    /\ pid_rows = <<>>
    /\ lock_rows = <<>>
    /\ max_start \in 0..MaxStartLimit
    /\ records \in SeqsUpTo(RecordChoices, MaxRecords)
    /\ InitOutputs

RecordsSpec == InitRecords /\ [][NextSched]_vars

-----------------------------------------------------------------------------
(* A `ready` invocation on boards whose deps fields name tasks and gates   *)
(* that are done, not done or absent, or hold other words.                 *)

T9 == <<"T", "9", "-", "9">>
G2 == <<"G", "2">>
NoneWord == <<"n", "o", "n", "e">>

\* "-", "T1-2", "T9-9" (on no board), "G2" (no such gate), "none", "T1-2,G1"
DepsBoardDeps == {<<"-">>, T2, T9, G2, NoneWord, T2 \o <<",">> \o G1}

DepsBoards ==
    UNION {
        {[n \in 1..len |-> [id |-> BoardIds[n], owner |-> f[n][1], deps |-> f[n][2],
                            status |-> f[n][3]]] :
            f \in [1..len -> {AgA, AgB} \X DepsBoardDeps \X BoardStatuses]} :
        len \in 0..MaxTasks}

InitDeps ==
    /\ pc = "scan"
    /\ tasks \in DepsBoards
    /\ gates \in {Put(EmptyMap, G1, st) : st \in {"DONE", "PENDING"}}
    /\ pid_rows = <<>>
    /\ lock_rows \in Inventories({LockRow(StemS1, T1, AgA, ScopeS1, WtOk)})
    /\ max_start = 0
    /\ records = <<>>
    /\ InitOutputs

DepsSpec == InitDeps /\ [][Next]_vars

-----------------------------------------------------------------------------
(* No `ready` invocation runs.                                             *)

InitIdle ==
    /\ pc = "idle"
    /\ tasks = <<>>
    /\ gates = EmptyMap
    /\ pid_rows = <<>>
    /\ lock_rows = <<>>
    /\ max_start = 0
    /\ records = <<>>
    /\ task_specs = EmptyMap
    /\ active_by_task = EmptyMap
    /\ active_owner_keys = {}
    /\ conflict_by_task = EmptyMap
    /\ i = 1
    /\ ready_tasks = <<>>
    /\ excluded_tasks = <<>>
    /\ scheduled_owner_keys = {}

-----------------------------------------------------------------------------
(* classify_records on lists whose rows repeat keys, in any order.         *)

KeyPidRows ==
    {PidRow(st, t, AgA, ScopeS1, Pid100, WtOk) : st \in {StemW1, StemW2}, t \in {<<>>, T1, T2}}

KeyLockRows == {LockRow(StemS1, t, AgA, ScopeS1, WtOk) : t \in {<<>>, T1, T2}}

InitKeys ==
    /\ pc = "scan"
    /\ tasks = <<>>
    /\ gates = EmptyMap
    /\ pid_rows \in SeqsUpTo(KeyPidRows, MaxKeyRows)
    /\ lock_rows \in SeqsUpTo(KeyLockRows, MaxKeyRows)
    /\ max_start = 0
    /\ records = <<>>
    /\ InitOutputs

KeysSpec == InitKeys /\ [][ClassifyRecords]_vars

-----------------------------------------------------------------------------
(* A `ready` invocation from the inventory directories on.  A task_id      *)
(* field is whatever the file says: it may be empty, a task id of the      *)
(* board, or any other text.                                               *)

PidStems == <<StemW1, StemW2, StemW3>>

\* the text "PIDONLY:w1" as a task_id field
TaskIdLikePidOnly == PIDONLY \o StemW1

\* the text "LOCKONLY:s1:AgA:s1.lock" as a task_id field
TaskIdLikeLockOnly == LOCKONLY \o ScopeS1 \o <<":">> \o AgA \o <<":">> \o StemS1 \o DotLock

PidFileFields ==
    {[task_id |-> t, owner |-> AgA, scope |-> ScopeS1, pid |-> Pid100, worktree |-> WtOk] :
        t \in {<<>>, T1, TaskIdLikePidOnly}}

LockFileFields ==
    {[task_id |-> t, owner |-> AgA, scope |-> ScopeS1, worktree |-> WtOk] :
        t \in {<<>>, T1, TaskIdLikeLockOnly}}

\* the directory is missing, or holds some of the files named by stems
Dirs(stems, fields) ==
    {NoDir} \cup
    UNION {{[exists |-> TRUE, files |-> f] : f \in [S -> fields]} : S \in SUBSET stems}

FileBoards ==
    UNION {
        {[n \in 1..len |-> [id |-> BoardIds[n], owner |-> f[n], deps |-> <<"-">>,
                            status |-> "TODO"]] :
            f \in [1..len -> {AgA, AgB}]} :
        len \in 1..MaxTasks}

InitFiles ==
    /\ pc = "load"
    /\ tasks \in FileBoards
    /\ gates = EmptyMap
    /\ pid_rows = <<>>
    /\ lock_rows = <<>>
    /\ max_start = 0
    /\ records = <<>>
    /\ task_specs = EmptyMap
    /\ active_by_task = EmptyMap
    /\ active_owner_keys = {}
    /\ conflict_by_task = EmptyMap
    /\ i = 1
    /\ ready_tasks = <<>>
    /\ excluded_tasks = <<>>
    /\ scheduled_owner_keys = {}
    /\ call = NoCall
    /\ scan = NoScan
    /\ status = NoStatus
    /\ todo_file = NoFile
    /\ session = NoSession
    /\ orch_dir \in Dirs({PidStems[n] : n \in 1..MaxPidFiles}, PidFileFields)
    /\ lock_dir \in Dirs({StemS1}, LockFileFields)

NextFiles == LoadInventories \/ Next

FilesSpec == InitFiles /\ [][NextFiles]_vars

-----------------------------------------------------------------------------
(* A `ready` invocation from the board file on, with nothing else running. *)

UserHeader == <<"ID", "Title", "Owner", "Deps", "Notes", "Status">>

\* the empty board that older versions wrote: the Area header and no task row
LegacyEmptyBoard ==
    [exists |-> TRUE, header |-> BootstrapHeader, tasks |-> <<>>, gates |-> EmptyMap]

BoardFiles ==
    {NoFile, LegacyEmptyBoard} \cup
    {[exists |-> TRUE, header |-> UserHeader, tasks |-> b, gates |-> EmptyMap] :
        b \in FileBoards \cup {<<>>}}

InitDisk ==
    /\ pc = "start"
    /\ tasks = <<>>
    /\ gates = EmptyMap
    /\ pid_rows = <<>>
    /\ lock_rows = <<>>
    /\ max_start = 0
    /\ records = <<>>
    /\ task_specs = EmptyMap
    /\ active_by_task = EmptyMap
    /\ active_owner_keys = {}
    /\ conflict_by_task = EmptyMap
    /\ i = 1
    /\ ready_tasks = <<>>
    /\ excluded_tasks = <<>>
    /\ scheduled_owner_keys = {}
    /\ call = NoCall
    /\ scan = NoScan
    /\ status = NoStatus
    /\ todo_file \in BoardFiles
    /\ session = NoSession
    /\ orch_dir \in Dirs({StemW1}, PidFileFields)
    /\ lock_dir \in Dirs({StemS1}, LockFileFields)

NextDisk == EnsureAndParse \/ NextFiles

DiskSpec == InitDisk /\ [][NextDisk]_vars

-----------------------------------------------------------------------------
(* One inventory scan step by step, while other processes delete files.    *)
(* scan = [pc, kind, names, idx, fld, cur, rows]: the position, which       *)
(* loader runs, the sorted listing, the index of the current file, the     *)
(* index of the current field, the fields read so far and the rows so far. *)

\* the read_field calls of one file, in order (tmux_session, launch_backend
\* and log_file are read the same way and are left out)
ScanFields(kind) ==
    IF kind = "pid" THEN <<"task_id", "owner", "scope", "pid", "worktree">>
    ELSE <<"task_id", "owner", "scope", "worktree">>

ScanSuffix(kind) == IF kind = "pid" THEN DotPid ELSE DotLock

ScanDir(kind) == IF kind = "pid" THEN orch_dir ELSE lock_dir

\* the file of the current index of the listing
ScanStem == StemOf(scan.names[scan.idx], ScanSuffix(scan.kind))

ScanFileExists == ScanStem \in DOMAIN ScanDir(scan.kind).files

\* the row appended once every field of the file is read
ScanRow(kind, stem, cur) ==
    IF kind = "pid"
    THEN PidRow(stem, cur["task_id"], cur["owner"], cur["scope"], cur["pid"], cur["worktree"])
    ELSE LockRow(stem, cur["task_id"], cur["owner"], cur["scope"], cur["worktree"])

\* the scan once read_field returned this value for the current field
AfterField(value) ==
    LET cur == Put(scan.cur, ScanFields(scan.kind)[scan.fld], value)
    IN  IF scan.fld < Len(ScanFields(scan.kind))
        THEN [scan EXCEPT !.pc = "exists", !.fld = scan.fld + 1, !.cur = cur]
        ELSE [scan EXCEPT !.pc = "next", !.idx = scan.idx + 1, !.fld = 1, !.cur = EmptyMap,
                          !.rows = Append(scan.rows, ScanRow(scan.kind, ScanStem, cur))]

\* if not base.exists(): return rows; else sorted(base.glob(...))
ScanStart ==
    /\ scan.pc = "start"
    /\ scan' = IF ~ScanDir(scan.kind).exists
               THEN [scan EXCEPT !.pc = "done"]
               ELSE [scan EXCEPT !.pc = "next",
                                 !.names = SortedNames(ScanDir(scan.kind), ScanSuffix(scan.kind))]
    /\ UNCHANGED <<sched_vars, call, orch_dir, lock_dir, status, todo_file, session>>

\* the head of the for loop; load_pid_inventory skips what is not a file
ScanNextFile ==
    /\ scan.pc = "next"
    /\ scan' = IF scan.idx > Len(scan.names) THEN [scan EXCEPT !.pc = "done"]
               ELSE IF scan.kind = "pid" /\ ~ScanFileExists
               THEN [scan EXCEPT !.idx = scan.idx + 1]
               ELSE [scan EXCEPT !.pc = "exists", !.fld = 1, !.cur = EmptyMap]
    /\ UNCHANGED <<sched_vars, call, orch_dir, lock_dir, status, todo_file, session>>

\* read_field: if not file_path.exists(): return ""
ReadFieldExists ==
    /\ scan.pc = "exists"
    /\ scan' = IF ScanFileExists THEN [scan EXCEPT !.pc = "read"] ELSE AfterField(<<>>)
    /\ UNCHANGED <<sched_vars, call, orch_dir, lock_dir, status, todo_file, session>>

\* read_field: file_path.read_text() and the search for the key; read_text
\* raises FileNotFoundError when the file is gone, and nothing catches it
ReadFieldText ==
    /\ scan.pc = "read"
    /\ scan' = IF ScanFileExists
               THEN AfterField(ScanDir(scan.kind).files[ScanStem][ScanFields(scan.kind)[scan.fld]])
               ELSE [scan EXCEPT !.pc = "error"]
    /\ UNCHANGED <<sched_vars, call, orch_dir, lock_dir, status, todo_file, session>>

\* another process removes a liveness file or a lock file during the scan
DeleteFile ==
    /\ scan.pc \in {"start", "next", "exists", "read"}
    /\ \/ \E stem \in DOMAIN orch_dir.files :
             /\ orch_dir' = [orch_dir EXCEPT
                                !.files = [x \in DOMAIN orch_dir.files \ {stem} |-> orch_dir.files[x]]]
             /\ UNCHANGED lock_dir
       \/ \E stem \in DOMAIN lock_dir.files :
             /\ lock_dir' = [lock_dir EXCEPT
                                !.files = [x \in DOMAIN lock_dir.files \ {stem} |-> lock_dir.files[x]]]
             /\ UNCHANGED orch_dir
    /\ UNCHANGED <<sched_vars, call, scan, status, todo_file, session>>

ScanPidFields ==
    [task_id |-> T1, owner |-> AgA, scope |-> ScopeS1, pid |-> Pid100, worktree |-> WtOk]

ScanLockFields == [task_id |-> T1, owner |-> AgA, scope |-> ScopeS1, worktree |-> WtOk]

ScanStems == {PidStems[n] : n \in 1..MaxScanFiles}

InitScan ==
    /\ InitIdle
    /\ call = NoCall
    /\ status = NoStatus
    /\ todo_file = NoFile
    /\ session = NoSession
    /\ orch_dir \in Dirs(ScanStems, {ScanPidFields})
    /\ lock_dir \in Dirs(ScanStems, {ScanLockFields})
    /\ \E kind \in {"pid", "lock"} :
          scan = [pc |-> "start", kind |-> kind, names |-> <<>>, idx |-> 1, fld |-> 1,
                  cur |-> EmptyMap, rows |-> <<>>]

NextScan == ScanStart \/ ScanNextFile \/ ReadFieldExists \/ ReadFieldText \/ DeleteFile

ScanSpec == InitScan /\ [][NextScan]_vars

-----------------------------------------------------------------------------
(* One `status` invocation: _ready_payload, then _inventory_payload, while *)
(* workers take and release locks.                                         *)

\* running_locks of _ready_payload: task_id, owner and scope of every lock row
running_locks(rows) ==
    [n \in 1..Len(rows) |->
        [task_id |-> rows[n].task_id, owner |-> rows[n].owner, scope |-> rows[n].scope]]

\* inventory_payload = _inventory_payload(args), which scans the directories
\* again, and the payload _status_payload returns
InventoryPayload ==
    /\ status.pc = "ready"
    /\ pc = "done"
    /\ status' = [pc |-> "returned",
                  ready_tasks |-> ready_tasks,
                  excluded_tasks |-> excluded_tasks,
                  workers |-> classify_records(load_pid_inventory(orch_dir),
                                               load_lock_inventory(lock_dir)),
                  active_locks |-> running_locks(lock_rows)]
    /\ UNCHANGED <<sched_vars, call, orch_dir, lock_dir, scan, todo_file, session>>

\* a worker takes the lock of a task: it writes <stem>.lock
WorkerLocks ==
    /\ status.pc = "ready"
    /\ lock_dir.exists
    /\ \E stem \in {StemS1} \ DOMAIN lock_dir.files : \E f \in LockFileFields :
          /\ f.task_id \in {tasks[n].id : n \in 1..Len(tasks)}
          /\ lock_dir' = [lock_dir EXCEPT !.files = Put(lock_dir.files, stem, f)]
    /\ UNCHANGED <<sched_vars, call, orch_dir, scan, status, todo_file, session>>

\* a worker releases its lock: it removes <stem>.lock
WorkerUnlocks ==
    /\ status.pc = "ready"
    /\ \E stem \in DOMAIN lock_dir.files :
          lock_dir' = [lock_dir EXCEPT
                          !.files = [x \in DOMAIN lock_dir.files \ {stem} |-> lock_dir.files[x]]]
    /\ UNCHANGED <<sched_vars, call, orch_dir, scan, status, todo_file, session>>

InitStatus ==
    /\ pc = "load"
    /\ tasks \in FileBoards
    /\ gates = EmptyMap
    /\ pid_rows = <<>>
    /\ lock_rows = <<>>
    /\ max_start = 0
    /\ records = <<>>
    /\ task_specs = EmptyMap
    /\ active_by_task = EmptyMap
    /\ active_owner_keys = {}
    /\ conflict_by_task = EmptyMap
    /\ i = 1
    /\ ready_tasks = <<>>
    /\ excluded_tasks = <<>>
    /\ scheduled_owner_keys = {}
    /\ call = NoCall
    /\ scan = NoScan
    /\ status = [pc |-> "ready"]
    /\ todo_file = NoFile
    /\ session = NoSession
    /\ orch_dir = NoDir
    /\ lock_dir \in Dirs({StemS1}, LockFileFields) \ {NoDir}

NextStatus == NextFiles \/ InventoryPayload \/ WorkerLocks \/ WorkerUnlocks

StatusSpec == InitStatus /\ [][NextStatus]_vars

-----------------------------------------------------------------------------
(* Single calls of is_pid_alive and deps_ready on arbitrary arguments.     *)

PidChars == {"0", "1", "-", "a"}

\* the pid fields tried: "", "0", "1", "100", "-1", "a", "01", ...
PidValues == SeqsUpTo(PidChars, MaxPidLen)

PidCalls ==
    {[fn |-> "is_pid_alive", pid_value |-> s, done |-> FALSE, ret |-> FALSE] :
        s \in PidValues}

\* ret = is_pid_alive(pid_value)
IsPidAlive ==
    /\ call.fn = "is_pid_alive"
    /\ ~call.done
    /\ call' = [call EXCEPT !.done = TRUE, !.ret = is_pid_alive(call.pid_value)]
    /\ UNCHANGED <<sched_vars, orch_dir, lock_dir, scan, status, todo_file, session>>

\* the tokens of the deps fields tried: empty, blank, the sentinel "-", the
\* word "none", a word of no known format, task ids (one padded with a
\* blank, one that no board has) and gate ids
DepTokens == {<<>>, <<" ">>, <<"-">>, NoneWord, <<"x">>, T1, <<" ">> \o T2, T9, G1, G2}

\* ",".join(tokens)
RECURSIVE JoinComma(_)
JoinComma(tokens) ==
    IF tokens = <<>> THEN <<>>
    ELSE IF Len(tokens) = 1 THEN tokens[1]
    ELSE tokens[1] \o <<",">> \o JoinComma(Tail(tokens))

DepsValues == {JoinComma(ts) : ts \in SeqsUpTo(DepTokens, MaxDepTokens)}

\* a status map of the ids: an id is absent or has one of the values
StatusMaps(ids, values) ==
    UNION {[S -> values] : S \in SUBSET ids}

DepsCalls ==
    {[fn |-> "deps_ready", deps |-> d, task_status |-> ts, gate_status |-> gs,
      done |-> FALSE, ret |-> FALSE] :
        d \in DepsValues,
        ts \in StatusMaps({T1, T2}, {"TODO", "DONE"}),
        gs \in StatusMaps({G1}, {"PENDING", "DONE"})}

\* ret = deps_ready(deps, task_status, gate_status)
DepsReady ==
    /\ call.fn = "deps_ready"
    /\ ~call.done
    /\ call' = [call EXCEPT !.done = TRUE,
                            !.ret = deps_ready(call.deps, call.task_status, call.gate_status)]
    /\ UNCHANGED <<sched_vars, orch_dir, lock_dir, scan, status, todo_file, session>>

InitCall ==
    /\ InitIdle
    /\ call \in PidCalls \cup DepsCalls
    /\ orch_dir = NoDir
    /\ lock_dir = NoDir
    /\ scan = NoScan
    /\ status = NoStatus
    /\ todo_file = NoFile
    /\ session = NoSession

NextCall == IsPidAlive \/ DepsReady

CallSpec == InitCall /\ [][NextCall]_vars

-----------------------------------------------------------------------------
(* Single calls of parse_todo: a path text and the file found there.       *)

PathChars == {"a", "/", "."}

\* the path texts tried: "", "a", "./a", "a/a", "//a", "a/", "..", ...
PathValues == SeqsUpTo(PathChars, MaxPathLen)

ParseCalls ==
    {[fn |-> "parse_todo", todo_file |-> p, file |-> f, done |-> FALSE,
      ret |-> [raised |-> "none"]] :
        p \in PathValues, f \in BoardFiles}

\* tasks, gates = parse_todo(todo_file, schema)
ParseTodo ==
    /\ call.fn = "parse_todo"
    /\ ~call.done
    /\ call' = [call EXCEPT !.done = TRUE, !.ret = parse_todo(call.todo_file, call.file)]
    /\ UNCHANGED <<sched_vars, orch_dir, lock_dir, scan, status, todo_file, session>>

InitParse ==
    /\ InitIdle
    /\ call \in ParseCalls
    /\ orch_dir = NoDir
    /\ lock_dir = NoDir
    /\ scan = NoScan
    /\ status = NoStatus
    /\ todo_file = NoFile
    /\ session = NoSession

NextParse == ParseTodo

ParseSpec == InitParse /\ [][NextParse]_vars

-----------------------------------------------------------------------------
(* Single calls of load_config: the tables that the configuration file     *)
(* holds.  A key of the file is absent or has one of the values tried.     *)

Absent == [type |-> "absent"]

\* the table of the keys that are not absent
TableOf(f) == TomlTable([k \in {x \in DOMAIN f : f[x] # Absent} |-> f[k]])

\* the file has no [owners] table, an empty one or one owner; or `owners` is
\* a string
OwnersChoices ==
    {Absent, TomlTable(EmptyMap), TomlTable(Put(EmptyMap, AgA, TomlStr(ScopeS1))), TomlStr(<<>>)}

ColChoices ==
    {Absent, TomlBool(TRUE), TomlBool(FALSE), TomlStr(<<"2">>)} \cup {TomlInt(n) : n \in (-1)..MaxColIndex}

KeywordChoices == {Absent, TomlList(<<>>)}

BackendChoices ==
    {Absent, TomlStr(Tmux), TomlStr(Auto), TomlStr(CodexExec), TomlStr(<<" ", "T", "M", "U", "X">>),
     TomlStr(<<"i", "n", "v", "a", "l", "i", "d">>), TomlStr(<<>>), TomlBool(TRUE)}

ParsedConfigs ==
    {[k \in {s \in {"owners", "todo", "runtime"} :
                \/ s = "owners" /\ o # Absent
                \/ s = "todo" /\ (c # Absent \/ c2 # Absent \/ w # Absent)
                \/ s = "runtime" /\ b # Absent} |->
         IF k = "owners" THEN o
         ELSE IF k = "todo" THEN TableOf([id_col |-> c, status_col |-> c2, done_keywords |-> w])
         ELSE TableOf([launch_backend |-> b])] :
        o \in OwnersChoices, c \in ColChoices, c2 \in {Absent, TomlInt(0), TomlInt(7)},
        w \in KeywordChoices, b \in BackendChoices}

ConfigCalls ==
    {[fn |-> "load_config", cfg |-> [exists |-> TRUE, parsed |-> p], parsed |-> p,
      done |-> FALSE, ret |-> [raised |-> "none"]] : p \in ParsedConfigs}
    \cup
    {[fn |-> "load_config", cfg |-> [exists |-> FALSE], parsed |-> DEFAULT_CONFIG,
      done |-> FALSE, ret |-> [raised |-> "none"]]}

\* merged, cfg_path = load_config(repo_root, config_path)
LoadConfig ==
    /\ call.fn = "load_config"
    /\ ~call.done
    /\ call' = [call EXCEPT !.done = TRUE,
                            !.cfg = bootstrap_config_if_missing(call.cfg),
                            !.ret = load_config(bootstrap_config_if_missing(call.cfg).parsed)]
    /\ UNCHANGED <<sched_vars, orch_dir, lock_dir, scan, status, todo_file, session>>

InitConfig ==
    /\ InitIdle
    /\ call \in ConfigCalls
    /\ orch_dir = NoDir
    /\ lock_dir = NoDir
    /\ scan = NoScan
    /\ status = NoStatus
    /\ todo_file = NoFile
    /\ session = NoSession

NextConfig == LoadConfig

ConfigSpec == InitConfig /\ [][NextConfig]_vars

-----------------------------------------------------------------------------
(* scripts/py/session_parser.py                                            *)
(* A text is a sequence of characters.  A code fence marker (three         *)
(* backticks) and a terminal escape sequence are one element each; the     *)
(* texts of the model hold no single backtick.                             *)

Fence == "<fence>"
AnsiEscape == "ESC[0m"
Whitespace == {" ", "\n", "\r", "\t"}

MAX_PREVIEW_CHARS == 1200

NotControl(ch) == ch # "\r" /\ ch # AnsiEscape

\* ANSI_ESCAPE_RE.sub("", text.replace("\r", ""))
strip_ansi(text) == SelectSeq(text, NotControl)

\* str.strip() and str.rstrip() of whitespace
RECURSIVE LStripWs(_)
LStripWs(s) == IF s # <<>> /\ Head(s) \in Whitespace THEN LStripWs(Tail(s)) ELSE s

RECURSIVE RStripWs(_)
RStripWs(s) ==
    IF s # <<>> /\ s[Len(s)] \in Whitespace THEN RStripWs(SubSeq(s, 1, Len(s) - 1)) ELSE s

StripWs(s) == RStripWs(LStripWs(s))

normalize_fragment(text) == StripWs(strip_ansi(text))

truncate(text) ==
    IF Len(text) <= MAX_PREVIEW_CHARS THEN text
    ELSE SubSeq(text, 1, MAX_PREVIEW_CHARS) \o <<".", ".", ".">>

\* str.splitlines(): the lines between the newlines, without a last empty one
SplitLines(text) ==
    LET pieces == SplitAt(text, "\n", <<>>)
    IN  IF pieces[Len(pieces)] = <<>> THEN SubSeq(pieces, 1, Len(pieces) - 1) ELSE pieces

\* SessionBlock.  A label is a tuple of its fixed words and its variable part.
\* src is not a field of the dataclass: it is the index of the first event
\* whose data went into the block (0 outside event logs), kept so that order
\* properties can be stated; no operation of the code reads it.
SessionBlock(kind, label, body, event_type, timestamp, item_type, role, item_id, item_status, src) ==
    [kind |-> kind, label |-> label, body |-> body, event_type |-> event_type,
     timestamp |-> timestamp, item_type |-> item_type, role |-> role,
     item_id |-> item_id, item_status |-> item_status, src |-> src]

\* the first index from `from` on that holds an element of S, or 0
NextOf(text, from, S) ==
    IF \E n \in from..Len(text) : text[n] \in S
    THEN CHOOSE n \in from..Len(text) :
            text[n] \in S /\ \A m \in from..(n - 1) : text[m] \notin S
    ELSE 0

NoMatch == [start |-> 0, nl |-> 0, end |-> 0]

\* CODE_FENCE_RE matched at the marker at p: the language up to the end of
\* the line, then the shortest body up to the next marker
FenceMatchAt(text, p) ==
    LET n == NextOf(text, p + 1, {"\n", Fence})
    IN  IF n = 0 \/ text[n] # "\n" THEN NoMatch
        ELSE LET q == NextOf(text, n + 1, {Fence})
             IN  IF q = 0 THEN NoMatch ELSE [start |-> p, nl |-> n, end |-> q]

\* the next match of CODE_FENCE_RE.finditer from the cursor on
FenceMatch(text, cursor) ==
    LET starts == {p \in cursor..Len(text) :
                      text[p] = Fence /\ FenceMatchAt(text, p) # NoMatch}
    IN  IF starts = {} THEN NoMatch
        ELSE FenceMatchAt(text, CHOOSE p \in starts : \A o \in starts : p <= o)

CodeLabel(language) == IF language = <<>> THEN <<"Code">> ELSE <<"Code", language>>

\* the loop of _split_chat_and_code_blocks over the matches and its tail;
\* chat is the chat block that each piece of text outside the fences becomes
RECURSIVE SplitFences(_, _, _)
SplitFences(text, cursor, chat) ==
    LET m == FenceMatch(text, cursor)
    IN  IF m = NoMatch
        THEN LET tail == normalize_fragment(SubSeq(text, cursor, Len(text)))
             IN  IF tail # <<>> THEN <<[chat EXCEPT !.body = truncate(tail)]>> ELSE <<>>
        ELSE LET before    == normalize_fragment(SubSeq(text, cursor, m.start - 1))
                 language  == StripWs(SubSeq(text, m.start + 1, m.nl - 1))
                 code_body == normalize_fragment(SubSeq(text, m.nl + 1, m.end - 1))
             IN  (IF before # <<>> THEN <<[chat EXCEPT !.body = truncate(before)]>> ELSE <<>>)
                 \o (IF code_body # <<>>
                     THEN <<[chat EXCEPT !.kind = "code", !.label = CodeLabel(language),
                                         !.body = truncate(code_body), !.item_type = "code"]>>
                     ELSE <<>>)
                 \o SplitFences(text, m.end + 1, chat)

\* _split_chat_and_code_blocks(text, chat_kind, chat_label, ...)
split_chat_and_code_blocks(text, chat) ==
    LET blocks == SplitFences(text, 1, chat)
        body   == normalize_fragment(text)
    IN  IF blocks # <<>> THEN blocks
        ELSE IF body # <<>> THEN <<[chat EXCEPT !.body = truncate(body)]>>
        ELSE <<>>

\* _strip_wrapped_bold: bold markers around the whole text go, repeatedly
RECURSIVE StripBoldLoop(_)
StripBoldLoop(cleaned) ==
    IF /\ Len(cleaned) > 4
       /\ SubSeq(cleaned, 1, 2) = <<"*", "*">>
       /\ SubSeq(cleaned, Len(cleaned) - 1, Len(cleaned)) = <<"*", "*">>
    THEN LET inner == StripWs(SubSeq(cleaned, 3, Len(cleaned) - 2))
         IN  IF inner = <<>> THEN cleaned ELSE StripBoldLoop(inner)
    ELSE cleaned

strip_wrapped_bold(text) == StripBoldLoop(normalize_fragment(text))

\* An event is the dict of one JSON line, with the keys that the inputs of
\* the model use: type, timestamp, delta, item_id, status and item (a tuple
\* of no or one item; the inputs carry no response.output list).  A text
\* value that is absent is None.  An item has type, role, status, id, text,
\* content (its parts, each with type and text), command, name, payload (the
\* arguments of a call, the output of a result) and exit_code.

\* the text of json.dumps of a dict, as one element
JsonDump == <<"{json}">>

\* `token in event_type` for the event types of the inputs
TokensOf(event_type) ==
    CASE event_type = "response.output_text.delta" -> {"output_text", "output", "response."}
      [] event_type = "response.reasoning.delta"   -> {"reasoning", "response."}
      [] event_type = "response.status"            -> {"status", "response."}
      [] event_type = "response.output_item.added" -> {"output", "response."}
      [] event_type = "error"                      -> {"error"}
      [] OTHER                                     -> {}

Contains(event_type, token) == token \in TokensOf(event_type)

ContainsAny(event_type, tokens) == \E token \in tokens : Contains(event_type, token)

ReasoningTokens == {"reasoning", "thinking", "thought", "analysis"}

\* _first_nonempty on one text value: the stripped text, or ""
FirstNonempty(value) ==
    IF value # None /\ StripWs(value) # <<>> THEN StripWs(value) ELSE <<>>

\* _format_payload of a string, of None and of any other value
format_payload(value) ==
    IF value = None THEN <<>> ELSE truncate(normalize_fragment(value))

event_timestamp(event) == event.timestamp

item_id_from_item(item) == item.id

\* _stream_id_from_event: event.item_id, else the id of event.item
stream_id_from_event(event) ==
    IF event.item_id # "" THEN event.item_id
    ELSE IF event.item # <<>> THEN event.item[1].id
    ELSE ""

\* _event_detail: the status text of the dict if it has one, else its dump
event_detail(node) ==
    IF node.status # None /\ format_payload(node.status) # <<>>
    THEN format_payload(node.status)
    ELSE JsonDump

\* _event_detail of an item: its status if it has one, else a dump
item_detail(item) == IF item.status # "" THEN <<item.status>> ELSE JsonDump

MessageTypes == {"message", "agent_message", "assistant_message", "user_message"}
ReasoningTypes == {"reasoning", "analysis", "thinking", "thought"}
CommandTypes == {"command_execution", "command", "shell_command"}
\* the call types with the type of a function output taken for a call
CallTypes_WithOutput ==
    {"function_call", "tool_call", "web_search_call", "computer_call", "mcp_call",
     "function_call_output"}
\* the item types of the inputs that end in "_call" or are a call alias
CallTypes == {"function_call", "tool_call", "web_search_call", "computer_call", "mcp_call"}
\* the item types of the inputs that end in "_output" or are a result alias
ResultTypes == {"function_call_output", "tool_result", "output"}
ErrorTypes == {"error", "exception"}

\* the role of a message item
MessageRole(item) ==
    IF item.type = "agent_message" THEN "user"
    ELSE IF item.type = "assistant_message" THEN "assistant"
    ELSE IF item.type = "user_message" THEN "user"
    ELSE IF item.role # "" THEN item.role
    ELSE "assistant"

ChatBlock(role, event_type, timestamp, item_type, item_id, src) ==
    SessionBlock(IF role = "assistant" THEN "chat_codex" ELSE "chat_agent",
                 IF role = "assistant" THEN <<"Codex">> ELSE <<"Agent">>,
                 <<>>, event_type, timestamp, item_type, role, item_id, "", src)

\* the blocks of the content parts of a message item
RECURSIVE ContentBlocks(_, _, _, _, _)
ContentBlocks(parts, item, event_type, timestamp, src) ==
    IF parts = <<>> THEN <<>>
    ELSE LET part      == Head(parts)
             part_type == IF part.type # "" THEN part.type ELSE item.type
             rest      == ContentBlocks(Tail(parts), item, event_type, timestamp, src)
         IN  IF part.text = None \/ StripWs(part.text) = <<>> THEN rest
             ELSE split_chat_and_code_blocks(
                      part.text,
                      ChatBlock(MessageRole(item), event_type, timestamp, part_type,
                                item_id_from_item(item), src)) \o rest

\* the status text of a command item: is it a string, stripped and lowered
CommandState(item) == IF item.status # "" THEN item.status ELSE "in_progress"

CommandLabel(item) ==
    IF CommandState(item) \in {"failed", "error"} /\ item.exit_code # None
    THEN <<"Command - exit", item.exit_code>>
    ELSE <<"Command">>

\* _unwrap_shell_command of a command that no shell wraps
unwrap_shell_command(command) == normalize_fragment(command)

ToolLabel(word, name) == IF name # "" THEN <<word, name>> ELSE <<word>>

\* the body of the for loop of _event_items_to_blocks: the blocks of one item
ItemBlocks(item, event_type, timestamp, src) ==
    LET item_id == item_id_from_item(item)
    IN  IF item.type \in MessageTypes THEN
            LET message_blocks == ContentBlocks(item.content, item, event_type, timestamp, src)
                fallback_text  == FirstNonempty(item.text)
            IN  IF message_blocks # <<>> THEN message_blocks
                ELSE IF fallback_text # <<>>
                THEN split_chat_and_code_blocks(
                         fallback_text,
                         ChatBlock(MessageRole(item), event_type, timestamp, item.type,
                                   item_id, src))
                ELSE <<>>
        ELSE IF item.type \in ReasoningTypes THEN
            LET found          == FirstNonempty(item.text)
                reasoning_text == strip_wrapped_bold(
                                      IF found # <<>> THEN found ELSE item_detail(item))
            IN  IF reasoning_text # <<>>
                THEN <<SessionBlock("think", <<"Think">>, truncate(reasoning_text), event_type,
                                    timestamp, item.type,
                                    IF item.role # "" THEN item.role ELSE "assistant",
                                    item_id, "", src)>>
                ELSE <<>>
        ELSE IF item.type \in CommandTypes THEN
            LET command_value == unwrap_shell_command(FirstNonempty(item.command))
                body          == normalize_fragment(command_value)
            IN  IF command_value # <<>> \/ item_id # ""
                THEN <<SessionBlock("tool_call", CommandLabel(item),
                                    truncate(IF body # <<>> THEN body
                                             ELSE <<"(command unavailable)">>),
                                    event_type, timestamp, item.type, "assistant", item_id,
                                    CommandState(item), src)>>
                ELSE <<>>
        ELSE IF item.type \in CallTypes THEN
            LET body == format_payload(IF item.payload # None THEN item.payload ELSE JsonDump)
            IN  <<SessionBlock("tool_call", ToolLabel("Tool Call", item.name),
                               IF body # <<>> THEN body ELSE <<"(no payload)">>,
                               event_type, timestamp, item.type,
                               IF item.role # "" THEN item.role ELSE "assistant",
                               item_id, "", src)>>
        ELSE IF item.type \in ResultTypes THEN
            LET body == format_payload(IF item.payload # None THEN item.payload ELSE JsonDump)
            IN  <<SessionBlock("tool_result", ToolLabel("Tool Result", item.name),
                               IF body # <<>> THEN body ELSE <<"(no payload)">>,
                               event_type, timestamp, item.type,
                               IF item.role # "" THEN item.role ELSE "assistant",
                               item_id, "", src)>>
        ELSE IF item.type \in ErrorTypes THEN
            <<SessionBlock("error", <<"Error">>, item_detail(item), event_type, timestamp,
                           item.type, item.role, item_id, "", src)>>
        ELSE IF item.type # "" THEN
            <<SessionBlock("event", <<"Item", item.type>>, item_detail(item), event_type,
                           timestamp, item.type, item.role, item_id, "", src)>>
        ELSE <<>>

RECURSIVE ItemsLoop(_, _, _, _)
ItemsLoop(items, event_type, timestamp, src) ==
    IF items = <<>> THEN <<>>
    ELSE ItemBlocks(Head(items), event_type, timestamp, src)
         \o ItemsLoop(Tail(items), event_type, timestamp, src)

\* _iter_output_items: event.item
iter_output_items(event) == event.item

event_items_to_blocks(event, event_type, timestamp, src) ==
    ItemsLoop(iter_output_items(event), event_type, timestamp, src)

\* _event_to_blocks.  An event of the inputs has no role, text, summary,
\* tool or payload key, so an event without item blocks yields no reasoning
\* fragment and no role-scoped fragment, and has a tool signal only by its
\* type.
event_to_blocks(event, src) ==
    LET event_type  == event.type
        timestamp   == event_timestamp(event)
        item_blocks == event_items_to_blocks(event, event_type, timestamp, src)
        stream_id   == stream_id_from_event(event)
        tool_kind   == IF ContainsAny(event_type, {"result", "output"}) THEN "tool_result"
                       ELSE IF ContainsAny(event_type, {"error", "fail"}) THEN "error"
                       ELSE "tool_call"
    IN  IF item_blocks # <<>> THEN item_blocks
        ELSE IF ContainsAny(event_type, {"tool", "function_call"}) THEN
            <<SessionBlock(tool_kind,
                           IF tool_kind = "tool_result" THEN <<"Tool Result">>
                           ELSE IF tool_kind = "error" THEN <<"Tool Error">>
                           ELSE <<"Tool Call">>,
                           event_detail(event), event_type, timestamp,
                           IF tool_kind = "tool_result" THEN "tool_result" ELSE "tool_call",
                           "assistant", stream_id, "", src)>>
        ELSE IF ContainsAny(event_type, {"error", "fail", "exception"}) THEN
            <<SessionBlock("error", <<"Error">>, format_payload(event_detail(event)),
                           event_type, timestamp, "error", "", stream_id, "", src)>>
        ELSE IF \/ ContainsAny(event_type, {"response.", "session", "status"})
                \/ event_type \in {"started", "completed"} THEN
            <<SessionBlock("status", <<"Status">>, event_detail(event), event_type,
                           timestamp, "status", "", stream_id, "", src)>>
        ELSE IF event_type = "" THEN <<>>
        ELSE <<SessionBlock("event", <<"Event">>, event_detail(event), event_type,
                            timestamp, "event", "", stream_id, "", src)>>

\* blocks.append(block) whatever the last block is
append_unique_Always(blocks, block) == Append(blocks, block)

\* _append_unique: a block equal to the last one in these seven fields is dropped
append_unique(blocks, block) ==
    IF /\ blocks # <<>>
       /\ block.kind = blocks[Len(blocks)].kind
       /\ block.body = blocks[Len(blocks)].body
       /\ block.event_type = blocks[Len(blocks)].event_type
       /\ block.item_type = blocks[Len(blocks)].item_type
       /\ block.role = blocks[Len(blocks)].role
       /\ block.item_id = blocks[Len(blocks)].item_id
       /\ block.item_status = blocks[Len(blocks)].item_status
    THEN blocks
    ELSE Append(blocks, block)

\* for block in new: _append_unique(blocks, block)
RECURSIVE AppendAllUnique(_, _)
AppendAllUnique(blocks, new) ==
    IF new = <<>> THEN blocks
    ELSE AppendAllUnique(append_unique(blocks, Head(new)), Tail(new))

\* A delta buffer is the dict as the tuple of its entries in insertion
\* order, each with stream_id, text and src (the index of the event of its
\* first fragment).
DefaultStream == "__default__"

\* buffers[stream_id] = delta : only the last fragment of a stream is kept
BufferDelta_Overwrite(buffers, stream_id, delta, src) ==
    IF \E k \in 1..Len(buffers) : buffers[k].stream_id = stream_id
    THEN [k \in 1..Len(buffers) |->
             IF buffers[k].stream_id = stream_id
             THEN [buffers[k] EXCEPT !.text = delta]
             ELSE buffers[k]]
    ELSE Append(buffers, [stream_id |-> stream_id, text |-> delta, src |-> src])

\* buffers[stream_id] = f"{buffers.get(stream_id, '')}{delta}"
BufferDelta(buffers, stream_id, delta, src) ==
    IF \E k \in 1..Len(buffers) : buffers[k].stream_id = stream_id
    THEN [k \in 1..Len(buffers) |->
             IF buffers[k].stream_id = stream_id
             THEN [buffers[k] EXCEPT !.text = @ \o delta]
             ELSE buffers[k]]
    ELSE Append(buffers, [stream_id |-> stream_id, text |-> delta, src |-> src])

NormalizedId(stream_id) == IF stream_id = DefaultStream THEN "" ELSE stream_id

\* the first loop of _flush_delta_buffers
RECURSIVE FlushText(_, _, _)
FlushText(blocks, buffers, timestamp) ==
    IF buffers = <<>> THEN blocks
    ELSE LET entry        == Head(buffers)
             flushed_text == normalize_fragment(entry.text)
         IN  IF flushed_text = <<>> THEN FlushText(blocks, Tail(buffers), timestamp)
             ELSE FlushText(
                      AppendAllUnique(
                          blocks,
                          split_chat_and_code_blocks(
                              flushed_text,
                              SessionBlock("chat_codex", <<"Codex">>, <<>>,
                                           "response.output_text.delta", timestamp,
                                           "output_text", "assistant",
                                           NormalizedId(entry.stream_id), "", entry.src))),
                      Tail(buffers), timestamp)

\* the second loop of _flush_delta_buffers
RECURSIVE FlushThink(_, _, _)
FlushThink(blocks, buffers, timestamp) ==
    IF buffers = <<>> THEN blocks
    ELSE LET entry         == Head(buffers)
             flushed_think == normalize_fragment(entry.text)
         IN  IF flushed_think = <<>> THEN FlushThink(blocks, Tail(buffers), timestamp)
             ELSE FlushThink(
                      append_unique(
                          blocks,
                          SessionBlock("think", <<"Think">>, strip_wrapped_bold(flushed_think),
                                       "response.reasoning.delta", timestamp, "reasoning",
                                       "assistant", NormalizedId(entry.stream_id), "",
                                       entry.src)),
                      Tail(buffers), timestamp)

\* _flush_delta_buffers: the blocks after the flush (both buffers are then empty)
flush_delta_buffers(blocks, text_delta_buffers, think_delta_buffers, timestamp) ==
    FlushThink(FlushText(blocks, text_delta_buffers, timestamp),
               think_delta_buffers, timestamp)

\* blocks[-n:] in Python
LastBlocks(blocks, n) ==
    IF n = 0 THEN blocks
    ELSE IF n > 0 THEN SubSeq(blocks, IF Len(blocks) > n THEN Len(blocks) - n + 1 ELSE 1,
                              Len(blocks))
    ELSE SubSeq(blocks, IF Len(blocks) > -n THEN 1 - n ELSE Len(blocks) + 1, Len(blocks))

\* the display kinds with the status kind let through
ALLOWED_KINDS_WithStatus ==
    {"chat_agent", "chat_codex", "think", "code", "tool_call", "tool_result", "error",
     "terminal", "status"}

Max(a, b) == IF a >= b THEN a ELSE b

ALLOWED_KINDS ==
    {"chat_agent", "chat_codex", "think", "code", "tool_call", "tool_result", "error",
     "terminal"}

MergeKinds == {"chat_agent", "chat_codex", "think", "terminal"}

IsCommandCall(block) == block.kind = "tool_call" /\ block.item_type \in CommandTypes

\* the index of the block that `for existing in reversed(merged)` stops at, or 0
ExistingCommand(merged, block) ==
    LET found == {k \in 1..Len(merged) :
                     IsCommandCall(merged[k]) /\ merged[k].item_id = block.item_id}
    IN  IF found = {} THEN 0 ELSE CHOOSE k \in found : \A o \in found : o <= k

\* the update of an existing command block that keeps its first status
UpdateCommand_KeepStatus(existing, block, body) ==
    [existing EXCEPT
        !.body = IF body # <<>> /\ body # <<"(command unavailable)">>
                 THEN truncate(body) ELSE @,
        !.label = IF block.label # <<>> THEN block.label ELSE @,
        !.timestamp = IF block.timestamp # "" THEN block.timestamp ELSE @]

UpdateCommand(existing, block, body) ==
    [existing EXCEPT
        !.body = IF body # <<>> /\ body # <<"(command unavailable)">>
                 THEN truncate(body) ELSE @,
        !.item_status = IF block.item_status # "" THEN block.item_status ELSE @,
        !.label = IF block.label # <<>> THEN block.label ELSE @,
        !.timestamp = IF block.timestamp # "" THEN block.timestamp ELSE @]

\* the merge test without the comparison of the item ids
Mergeable_AnyItemId(last, block) ==
    /\ last.kind = block.kind
    /\ last.label = block.label
    /\ last.item_type = block.item_type
    /\ last.role = block.role
    /\ block.kind \in MergeKinds

Mergeable(last, block) ==
    /\ last.kind = block.kind
    /\ last.label = block.label
    /\ last.item_type = block.item_type
    /\ last.role = block.role
    /\ (last.item_id = block.item_id \/ (last.item_id = "" /\ block.item_id = ""))
    /\ block.kind \in MergeKinds

\* the for loop of _normalize_cli_view_blocks
RECURSIVE NormalizeLoop(_, _)
NormalizeLoop(blocks, merged) ==
    IF blocks = <<>> THEN merged
    ELSE LET block == Head(blocks)
             body  == normalize_fragment(block.body)
             k     == IF IsCommandCall(block) /\ block.item_id # ""
                      THEN ExistingCommand(merged, block) ELSE 0
         IN  IF block.kind \notin ALLOWED_KINDS \/ body = <<>>
             THEN NormalizeLoop(Tail(blocks), merged)
             ELSE IF k # 0
             THEN NormalizeLoop(Tail(blocks),
                                [merged EXCEPT ![k] = UpdateCommand(@, block, body)])
             ELSE IF merged # <<>> /\ Mergeable(merged[Len(merged)], block)
             THEN NormalizeLoop(
                      Tail(blocks),
                      [merged EXCEPT ![Len(merged)] =
                          [@ EXCEPT
                              !.body = truncate(@ \o <<"\n", "\n">> \o body),
                              !.timestamp = IF @ = "" /\ block.timestamp # ""
                                            THEN block.timestamp ELSE @]])
             ELSE NormalizeLoop(
                      Tail(blocks),
                      Append(merged,
                             SessionBlock(block.kind, block.label, truncate(body), "",
                                          block.timestamp, block.item_type, block.role,
                                          block.item_id, block.item_status, block.src)))

NoOutputYet == <<"(No output yet)">>

normalize_cli_view_blocks(blocks, max_blocks) ==
    LET merged == NormalizeLoop(blocks, <<>>)
        tail   == blocks[Len(blocks)]
        shown  == normalize_fragment(tail.body)
    IN  IF blocks = <<>> THEN <<>>
        ELSE IF merged = <<>>
        THEN <<SessionBlock("terminal", <<"Terminal">>,
                            truncate(IF shown # <<>> THEN shown ELSE NoOutputYet), "",
                            tail.timestamp,
                            IF tail.item_type # "" THEN tail.item_type ELSE "terminal",
                            tail.role, tail.item_id, tail.item_status, tail.src)>>
        ELSE LastBlocks(merged, max_blocks)

\* the compaction loop of _render_transcript: lines lose their trailing
\* whitespace, and of a run of blank lines two stay
RECURSIVE CompactLines(_, _)
CompactLines(lines, blank_seen) ==
    IF lines = <<>> THEN <<>>
    ELSE IF StripWs(Head(lines)) # <<>>
    THEN <<RStripWs(Head(lines))>> \o CompactLines(Tail(lines), 0)
    ELSE IF blank_seen + 1 <= 2
    THEN <<<<>>>> \o CompactLines(Tail(lines), blank_seen + 1)
    ELSE CompactLines(Tail(lines), blank_seen + 1)

render_transcript(text, max_lines) ==
    LET lines == SplitLines(strip_ansi(text))
        kept  == IF max_lines > 0 THEN LastBlocks(lines, max_lines) ELSE lines
        body  == StripWs(Join(CompactLines(kept, 0), <<"\n">>))
    IN  IF body # <<>> THEN body ELSE NoOutputYet

\* A log or a capture is the tuple of its lines; a line has its text and
\* json, the tuple of the dict that json.loads makes of it (empty when the
\* line does not start with "{", does not parse, or is no object).
LinesText(lines) == Join([n \in 1..Len(lines) |-> lines[n].text], <<"\n">>)

\* _iter_json_objects
RECURSIVE iter_json_objects(_)
iter_json_objects(lines) ==
    IF lines = <<>> THEN <<>> ELSE Head(lines).json \o iter_json_objects(Tail(lines))

NoView == [source |-> "none", parsed_events |-> 0, blocks |-> <<>>]

\* the state of parse_session_structured(raw_capture, log_tail, max_blocks)
\* at its start
SessionStart(raw_capture, log_tail, max_blocks) ==
    [pc |-> "start", raw_capture |-> raw_capture, log_tail |-> log_tail,
     max_blocks |-> max_blocks, max_lines |-> 260, source_text |-> <<>>,
     events |-> <<>>, idx |-> 1, blocks |-> <<>>, text_delta_buffers |-> <<>>,
     think_delta_buffers |-> <<>>, raw_blocks |-> <<>>, view |-> NoView]

\* source_text = log_tail if log_tail.strip() else raw_capture;
\* events = _iter_json_objects(source_text)
IterJsonObjects ==
    /\ session.pc = "start"
    /\ LET source_text == IF StripWs(LinesText(session.log_tail)) # <<>>
                          THEN session.log_tail ELSE session.raw_capture
           events      == iter_json_objects(source_text)
       IN  session' = [session EXCEPT !.source_text = source_text,
                                      !.events = events,
                                      !.pc = IF events # <<>> THEN "events" ELSE "fallback"]
    /\ UNCHANGED <<sched_vars, call, orch_dir, lock_dir, scan, status, todo_file>>

IsTextDelta(event) ==
    event.delta # None /\ ContainsAny(event.type, {"assistant", "output_text"})

IsThinkDelta(event) ==
    event.delta # None /\ ~IsTextDelta(event) /\ ContainsAny(event.type, ReasoningTokens)

\* the body of the for loop of _render_from_json_events
RenderEvent ==
    /\ session.pc = "events"
    /\ session.idx <= Len(session.events)
    /\ LET event     == session.events[session.idx]
           found     == stream_id_from_event(event)
           stream_id == IF found # "" THEN found ELSE DefaultStream
       IN  session' =
             IF IsTextDelta(event)
             THEN [session EXCEPT
                      !.text_delta_buffers = BufferDelta(@, stream_id, event.delta, session.idx),
                      !.idx = @ + 1]
             ELSE IF IsThinkDelta(event)
             THEN [session EXCEPT
                      !.think_delta_buffers = BufferDelta(@, stream_id, event.delta, session.idx),
                      !.idx = @ + 1]
             ELSE [session EXCEPT
                      !.blocks = AppendAllUnique(
                                     flush_delta_buffers(@, session.text_delta_buffers,
                                                         session.think_delta_buffers,
                                                         event_timestamp(event)),
                                     event_to_blocks(event, session.idx)),
                      !.text_delta_buffers = <<>>,
                      !.think_delta_buffers = <<>>,
                      !.idx = @ + 1]
    /\ UNCHANGED <<sched_vars, call, orch_dir, lock_dir, scan, status, todo_file>>

\* the end of _render_from_json_events: the last flush and blocks[-max_blocks:]
\* with max_blocks = max(64, max_blocks * 4)
RenderEnd ==
    /\ session.pc = "events"
    /\ session.idx > Len(session.events)
    /\ LET blocks     == flush_delta_buffers(session.blocks, session.text_delta_buffers,
                                             session.think_delta_buffers, "")
           raw_blocks == IF blocks = <<>> THEN <<>>
                         ELSE LastBlocks(blocks, Max(64, session.max_blocks * 4))
       IN  session' = [session EXCEPT
                          !.blocks = blocks,
                          !.text_delta_buffers = <<>>,
                          !.think_delta_buffers = <<>>,
                          !.raw_blocks = raw_blocks,
                          !.pc = IF raw_blocks # <<>> THEN "normalize" ELSE "fallback"]
    /\ UNCHANGED <<sched_vars, call, orch_dir, lock_dir, scan, status, todo_file>>

\* return SessionView(source="jsonl", ..., blocks=_normalize_cli_view_blocks(...))
NormalizeView ==
    /\ session.pc = "normalize"
    /\ session' = [session EXCEPT
                      !.view = [source |-> "jsonl",
                                parsed_events |-> Len(session.events),
                                blocks |-> normalize_cli_view_blocks(session.raw_blocks,
                                                                     session.max_blocks)],
                      !.pc = "done"]
    /\ UNCHANGED <<sched_vars, call, orch_dir, lock_dir, scan, status, todo_file>>

\* the blocks of the fallback path of parse_session_structured
FallbackBlocks(source_text, raw_capture, max_lines) ==
    LET fallback      == IF StripWs(LinesText(source_text)) # <<>>
                         THEN source_text ELSE raw_capture
        fallback_body == render_transcript(LinesText(fallback), max_lines)
        blocks        == split_chat_and_code_blocks(
                             fallback_body,
                             SessionBlock("terminal", <<"Terminal">>, <<>>, "capture", "",
                                          "", "", "", "", 0))
    IN  IF blocks # <<>> THEN blocks
        ELSE <<SessionBlock("terminal", <<"Terminal">>, NoOutputYet, "capture", "",
                            "terminal", "", "", "", 0)>>

\* return SessionView(source="transcript", parsed_events=0, blocks=fallback_blocks)
RenderFallback ==
    /\ session.pc = "fallback"
    /\ session' = [session EXCEPT
                      !.view = [source |-> "transcript",
                                parsed_events |-> 0,
                                blocks |-> FallbackBlocks(session.source_text,
                                                          session.raw_capture,
                                                          session.max_lines)],
                      !.pc = "done"]
    /\ UNCHANGED <<sched_vars, call, orch_dir, lock_dir, scan, status, todo_file>>

NextSession ==
    IterJsonObjects \/ RenderEvent \/ RenderEnd \/ NormalizeView \/ RenderFallback

-----------------------------------------------------------------------------
(* The events and the lines of the session inputs.                         *)

Event(type, delta, item_id, event_status, item) ==
    [type |-> type, timestamp |-> "", delta |-> delta, item_id |-> item_id,
     status |-> event_status, item |-> item]

Item(type, role, item_status, id, text, content, command, name, payload, exit_code) ==
    [type |-> type, role |-> role, status |-> item_status, id |-> id, text |-> text,
     content |-> content, command |-> command, name |-> name, payload |-> payload,
     exit_code |-> exit_code]

\* {"type":"response.output_text.delta","delta":...} with or without item_id
TextDelta(item_id, delta) == Event("response.output_text.delta", delta, item_id, None, <<>>)

\* {"type":"response.reasoning.delta","delta":...}
ThinkDelta(item_id, delta) == Event("response.reasoning.delta", delta, item_id, None, <<>>)

\* {"type":"response.status","status":"running"}
StatusEvent == Event("response.status", None, "", <<"r", "u", "n">>, <<>>)

\* {} : an event without a type
EmptyEvent == Event("", None, "", None, <<>>)

ItemEvent(type, item) == Event(type, None, "", None, <<item>>)

\* an item of type "message" with one output_text part
MessageItem(id, role, text) ==
    Item("message", role, "", id, None, <<[type |-> "output_text", text |-> text]>>,
         None, "", None, None)

\* an item of type "agent_message" with its text
AgentMessageItem(id, text) ==
    Item("agent_message", "", "", id, text, <<>>, None, "", None, None)

CommandItem(id, command, item_status) ==
    Item("command_execution", "", item_status, id, None, <<>>, command, "", None, None)

FunctionCallItem(id) ==
    Item("function_call", "", "", id, None, <<>>, None, "shell", <<"l", "s">>, None)

FunctionOutputItem(id) ==
    Item("function_call_output", "", "", id, None, <<>>, None, "shell", <<"o", "k">>, None)

\* an item of a type that no rule names
OtherItem(id) == Item("file_change", "", "", id, None, <<>>, None, "", None, None)

\* a line that json.loads turns into the event
JsonLine(event) == [text |-> JsonDump, json |-> <<event>>]

\* a line of plain text
TextLine(text) == [text |-> text, json |-> <<>>]

\* the log of the events, one line each
LogOf(events) == [n \in 1..Len(events) |-> JsonLine(events[n])]

\* a fenced region: the marker, the end of its line, a code line, the marker
Fenced == <<Fence, "\n", "c", Fence>>

InitSession(raw_captures, log_tails, max_blocks_args) ==
    /\ InitIdle
    /\ call = NoCall
    /\ orch_dir = NoDir
    /\ lock_dir = NoDir
    /\ scan = NoScan
    /\ status = NoStatus
    /\ todo_file = NoFile
    /\ \E raw_capture \in raw_captures, log_tail \in log_tails, n \in max_blocks_args :
          session = SessionStart(raw_capture, log_tail, n)

\* Event logs of text and reasoning fragments, status events, events without
\* a type and messages.
DeltaEvents ==
    {TextDelta("", <<"a">>), TextDelta("", <<" ", "b">>), TextDelta("", <<" ">>),
     TextDelta("", Fenced), TextDelta("s1", <<"a">>), ThinkDelta("", <<"t">>),
     StatusEvent, EmptyEvent,
     ItemEvent("response.output_item.added", MessageItem("m1", "assistant", <<"a">>))}

InitDelta ==
    InitSession({<<>>}, {LogOf(events) : events \in SeqsUpTo(DeltaEvents, MaxEvents)}, {12})

DeltaSpec == InitDelta /\ [][NextSession]_vars


\* Captures and log tails of a few lines, with the caller's max_blocks.
CaptureLines ==
    {TextLine(<<"x">>), TextLine(<<"x", Fence>>), TextLine(<<"c", Fence>>),
     JsonLine(TextDelta("", <<"a">>))}

TailLines ==
    {JsonLine(TextDelta("", <<"a">>)), JsonLine(TextDelta("", Fenced)),
     JsonLine(EmptyEvent), TextLine(<<"j">>), TextLine(<<" ">>)}

InitView ==
    InitSession(SeqsUpTo(CaptureLines, MaxLogLines), SeqsUpTo(TailLines, MaxLogLines),
                0..MaxBlocksArg)

ViewSpec == InitView /\ [][NextSession]_vars


FailedCommandItem(id, command, exit_code) ==
    Item("command_execution", "", "failed", id, None, <<>>, command, "", None, exit_code)

\* Event logs of command executions, tool calls and results, with a message,
\* a fragment of each kind, a status event and an item that no rule names.
ItemEvents ==
    {ItemEvent("response.output_item.added", item) :
        item \in {CommandItem("c1", <<"x">>, "in_progress"),
                  CommandItem("c1", None, "completed"),
                  CommandItem("c1", <<"y">>, ""),
                  FailedCommandItem("c1", <<"x">>, <<"1">>),
                  CommandItem("c2", <<"x">>, "completed"),
                  CommandItem("", <<"x">>, "completed"),
                  FunctionCallItem("f1"), FunctionOutputItem("f1"),
                  FunctionOutputItem("f2"), OtherItem("o1"),
                  AgentMessageItem("a1", <<"a">>)}}
    \cup {StatusEvent, TextDelta("", <<"a">>), ThinkDelta("", <<"t">>)}

InitItem ==
    InitSession({<<>>}, {LogOf(events) : events \in SeqsUpTo(ItemEvents, MaxEvents)}, {12})

ItemSpec == InitItem /\ [][NextSession]_vars


\* Command lines as the words and blanks they are made of.
RgFiles == <<"rg", " ", "--files">>
RgPattern == <<"rg", " ", "-n", " ", "PATTERN", " ", "-S", " ", "PATH">>
SedRead == <<"sed", " ", "-n", " ", "RANGE", " ", "FILE">>
SedEdit == <<"sed", " ", "-i", " ", "EXPR", " ", "FILE">>

\* Event logs of the started and completed events of one command item.
CommandEventChoices ==
    {ItemEvent("response.output_item.added", CommandItem("c1", command, item_status)) :
        command \in {RgFiles, RgPattern, SedRead, SedEdit},
        item_status \in {"in_progress", "completed"}}

InitCommand ==
    InitSession({<<>>}, {LogOf(events) : events \in SeqsUpTo(CommandEventChoices, MaxEvents)},
                {12})

CommandSpec == InitCommand /\ [][NextSession]_vars


\* A pass over boards whose rows may have a dependency that is on no board,
\* with worker records of two task ids of one owner and no start limit.
OrderBoards ==
    UNION {
        {[n \in 1..len |-> [id |-> BoardIds[n], owner |-> f[n][1], deps |-> f[n][2],
                            status |-> "TODO"]] :
            f \in [1..len -> {AgA, Bob} \X {<<"-">>, T9}]} :
        len \in 0..MaxTasks}

OrderRecordChoices ==
    UNION {{ClassifyKey(t, c) : c \in RecordCombos(t, AgA)} : t \in {T1, T2}}

InitOrder ==
    /\ pc = "classified"
    /\ tasks \in OrderBoards
    /\ gates = EmptyMap
    /\ pid_rows = <<>>
    /\ lock_rows = <<>>
    /\ max_start = 0
    /\ records \in SeqsUpTo(OrderRecordChoices, MaxRecords)
    /\ InitOutputs

OrderSpec == InitOrder /\ [][NextSched]_vars

-----------------------------------------------------------------------------
(* The gate loop of parse_todo on the lines of a board text.  The gate    *)
(* pattern is the one of DEFAULT_CONFIG: a backtick, G, digits, a blank,   *)
(* a parenthesised text without ")" of one character or more, a backtick. *)

\* the backtick character
Backtick == "[backtick]"

\* todo.done_keywords of DEFAULT_CONFIG; the two characters of the Korean
\* keyword are written by their code points
DONE_KEYWORDS ==
    {<<"D", "O", "N", "E">>, <<"U+C644", "U+B8CC">>,
     <<"C", "o", "m", "p", "l", "e", "t", "e">>,
     <<"c", "o", "m", "p", "l", "e", "t", "e">>}

\* the end of the run of digits that starts at position p (p - 1 if none)
RECURSIVE DigitsEnd(_, _)
DigitsEnd(line, p) ==
    IF p <= Len(line) /\ line[p] \in Digits THEN DigitsEnd(line, p + 1) ELSE p - 1

\* the position of the first ")" at or after position p (0 if none)
RECURSIVE FirstClose(_, _)
FirstClose(line, p) ==
    IF p > Len(line) THEN 0
    ELSE IF line[p] = ")" THEN p
    ELSE FirstClose(line, p + 1)

\* gate_regex.match at position s: the position of the closing backtick, 0
\* when the pattern does not match there
GateMatchAt(line, s) ==
    LET d == DigitsEnd(line, s + 2)
        c == FirstClose(line, d + 3)
    IN  IF /\ s + 1 <= Len(line)
           /\ line[s] = Backtick
           /\ line[s + 1] = "G"
           /\ d >= s + 2
           /\ d + 2 <= Len(line)
           /\ line[d + 1] = " "
           /\ line[d + 2] = "("
           /\ c > d + 3
           /\ c + 1 <= Len(line)
           /\ line[c + 1] = Backtick
        THEN c + 1
        ELSE 0

\* gate_regex.search(line): the start of the leftmost match, 0 when none
RECURSIVE GateSearch(_, _)
GateSearch(line, s) ==
    IF s > Len(line) THEN 0
    ELSE IF GateMatchAt(line, s) > 0 THEN s
    ELSE GateSearch(line, s + 1)

\* m.group(1) of the match that starts at s
GateToken(line, s) == SubSeq(line, s + 1, GateMatchAt(line, s) - 1)

\* token.split(" ", 1)[0]
RECURSIVE UpToBlank(_)
UpToBlank(token) ==
    IF token = <<>> \/ Head(token) = " " THEN <<>>
    ELSE <<Head(token)>> \o UpToBlank(Tail(token))

\* re.search(r"\(([^)]*)\)", token).group(1), "" when there is no match
RECURSIVE ParenText(_, _)
ParenText(token, p) ==
    IF p > Len(token) THEN <<>>
    ELSE IF token[p] = "(" /\ FirstClose(token, p + 1) > 0
         THEN SubSeq(token, p + 1, FirstClose(token, p + 1) - 1)
    ELSE ParenText(token, p + 1)

\* {str(x).lower() for x in schema.get("done_keywords", [])}
done_keywords == {LowerStr(k) : k \in DONE_KEYWORDS}

\* the body of the gate loop for one line
GateLine(gate_map, line) ==
    LET s == GateSearch(line, 1)
    IN  IF s = 0 THEN gate_map
        ELSE LET token   == GateToken(line, s)
                 gate_id == UpToBlank(token)
                 state   == LowerStr(Strip(ParenText(token, 1)))
             IN  Put(gate_map, gate_id,
                     IF state \in done_keywords THEN "DONE" ELSE "PENDING")

\* for line in lines: ... gates[gate_id] = ...
RECURSIVE GateLoop(_, _)
GateLoop(gate_map, lines) ==
    IF lines = <<>> THEN gate_map
    ELSE GateLoop(GateLine(gate_map, Head(lines)), Tail(lines))

\* the gates that parse_todo returns for a board text of these lines
parse_gates(lines) == GateLoop(EmptyMap, lines)

\* a gate marker as it is written in a board text
Marker(gate_id, text) == <<Backtick>> \o gate_id \o <<" ", "(">> \o text \o <<")", Backtick>>

\* the parenthesised texts tried
StatusTexts ==
    {<<"D", "O", "N", "E">>, <<"d", "o", "n", "e">>, <<"D", "o", "n", "e">>,
     <<"C", "o", "m", "p", "l", "e", "t", "e">>, <<"U+C644", "U+B8CC">>,
     <<"W", "I", "P">>, <<"D", "O", "N", "E", "D">>}

\* the lines tried: a marker after a label, a marker in a table row, a line
\* of two markers, lines without a marker, and near-markers (no closing
\* backtick, no digits, nothing between the parentheses)
GateLines ==
    {<<"x", " ">> \o Marker(G1, t) : t \in StatusTexts}
    \cup {<<"|", " ">> \o Marker(G2, <<"D", "O", "N", "E">>) \o <<" ", "|">>,
          Marker(G1, <<"D", "O", "N", "E">>) \o <<" ">> \o Marker(G2, <<"D", "O", "N", "E">>),
          Marker(G2, <<" ", "D", "O", "N", "E", " ">>),
          <<"x">>,
          <<>>,
          <<Backtick, "G", "1", " ", "(", "D", "O", "N", "E", ")">>,
          <<Backtick, "G", " ", "(", "D", "O", "N", "E", ")", Backtick>>,
          <<Backtick, "G", "1", " ", "(", ")", Backtick>>}

GateCalls ==
    {[fn |-> "parse_gates", lines |-> l, done |-> FALSE, ret |-> EmptyMap] :
        l \in SeqsUpTo(GateLines, MaxGateLines)}

\* _, gates = parse_todo(todo_file, schema)
ParseGates ==
    /\ call.fn = "parse_gates"
    /\ ~call.done
    /\ call' = [call EXCEPT !.done = TRUE, !.ret = parse_gates(call.lines)]
    /\ UNCHANGED <<sched_vars, orch_dir, lock_dir, scan, status, todo_file, session>>

InitGate ==
    /\ InitIdle
    /\ call \in GateCalls
    /\ orch_dir = NoDir
    /\ lock_dir = NoDir
    /\ scan = NoScan
    /\ status = NoStatus
    /\ todo_file = NoFile
    /\ session = NoSession

NextGate == ParseGates

GateSpec == InitGate /\ [][NextGate]_vars

-----------------------------------------------------------------------------
(* The loaders followed by classify_records on directories whose files     *)
(* name a worktree that exists, one that is gone, or none, and a process   *)
(* that is alive or not.                                                   *)

WorktreePidFields ==
    {[task_id |-> t, owner |-> AgA, scope |-> ScopeS1, pid |-> p, worktree |-> w] :
        t \in {<<>>, T1}, p \in {Pid100, Pid200}, w \in {<<>>, WtOk, WtGone}}

WorktreeLockFields ==
    {[task_id |-> t, owner |-> AgA, scope |-> ScopeS1, worktree |-> w] :
        t \in {<<>>, T1}, w \in {<<>>, WtOk, WtGone}}

InitWorktree ==
    /\ pc = "load"
    /\ tasks = <<>>
    /\ gates = EmptyMap
    /\ pid_rows = <<>>
    /\ lock_rows = <<>>
    /\ max_start = 0
    /\ records = <<>>
    /\ task_specs = EmptyMap
    /\ active_by_task = EmptyMap
    /\ active_owner_keys = {}
    /\ conflict_by_task = EmptyMap
    /\ i = 1
    /\ ready_tasks = <<>>
    /\ excluded_tasks = <<>>
    /\ scheduled_owner_keys = {}
    /\ call = NoCall
    /\ scan = NoScan
    /\ status = NoStatus
    /\ todo_file = NoFile
    /\ session = NoSession
    /\ orch_dir \in Dirs({PidStems[n] : n \in 1..MaxPidFiles}, WorktreePidFields)
    /\ lock_dir \in Dirs({StemS1}, WorktreeLockFields)

NextWorktree == LoadInventories \/ ClassifyRecords

WorktreeSpec == InitWorktree /\ [][NextWorktree]_vars

-----------------------------------------------------------------------------
(* One inventory scan step by step, while other processes delete files     *)
(* and write new contents into them.  A file holds one of two versions     *)
(* of its fields, and both name a task.                                    *)

ScanPidFields2 ==
    [task_id |-> T2, owner |-> AgB, scope |-> ScopeS1, pid |-> Pid200, worktree |-> WtOk]

ScanLockFields2 == [task_id |-> T2, owner |-> AgB, scope |-> ScopeS1, worktree |-> WtOk]

\* the versions that a file of this kind goes through
ScanVersions(kind) ==
    IF kind = "pid" THEN {ScanPidFields, ScanPidFields2} ELSE {ScanLockFields, ScanLockFields2}

\* another process writes the other version into a liveness file or a lock
\* file during the scan
RewriteFile ==
    /\ scan.pc \in {"start", "next", "exists", "read"}
    /\ \/ \E stem \in DOMAIN orch_dir.files :
             \E v \in ScanVersions("pid") \ {orch_dir.files[stem]} :
                /\ orch_dir' = [orch_dir EXCEPT !.files = Put(orch_dir.files, stem, v)]
                /\ UNCHANGED lock_dir
       \/ \E stem \in DOMAIN lock_dir.files :
             \E v \in ScanVersions("lock") \ {lock_dir.files[stem]} :
                /\ lock_dir' = [lock_dir EXCEPT !.files = Put(lock_dir.files, stem, v)]
                /\ UNCHANGED orch_dir
    /\ UNCHANGED <<sched_vars, call, scan, status, todo_file, session>>

RewriteStems == {PidStems[n] : n \in 1..MaxRewriteFiles}

InitRewrite ==
    /\ InitIdle
    /\ call = NoCall
    /\ status = NoStatus
    /\ todo_file = NoFile
    /\ session = NoSession
    /\ orch_dir \in Dirs(RewriteStems, ScanVersions("pid"))
    /\ lock_dir \in Dirs(RewriteStems, ScanVersions("lock"))
    /\ \E kind \in {"pid", "lock"} :
          scan = [pc |-> "start", kind |-> kind, names |-> <<>>, idx |-> 1, fld |-> 1,
                  cur |-> EmptyMap, rows |-> <<>>]

NextRewrite == NextScan \/ RewriteFile

RewriteSpec == InitRewrite /\ [][NextRewrite]_vars

-----------------------------------------------------------------------------
(* Vocabulary of the properties.                                           *)

Done == pc = "done"

ActiveStateNames == {"RUNNING", "LOCKED", "FINALIZING"}

StaleStateNames ==
    {"LOCK_STALE", "FINALIZING_EXITED", "ORPHAN_LOCK", "ORPHAN_PID", "MISSING_WORKTREE"}

AllStateNames == ActiveStateNames \cup StaleStateNames \cup {"UNKNOWN"}

RowsOf(list, id) == {k \in 1..Len(list) : list[k].task_id = id}

ReadyIds == {ready_tasks[k].task_id : k \in 1..Len(ready_tasks)}

ExcludedIds == {excluded_tasks[k].task_id : k \in 1..Len(excluded_tasks)}

ExcludedWith(id, reason, source) ==
    \E k \in RowsOf(excluded_tasks, id) :
        excluded_tasks[k].reason = reason /\ excluded_tasks[k].source = source

ActiveRecordsOf(id) == {k \in RowsOf(records, id) : records[k].state \in ActiveStateNames}

\* the row is a scheduling candidate: status TODO and an owner with a scope
Candidate(n) ==
    tasks[n].status = "TODO" /\ owner_key(tasks[n].owner) \in DOMAIN owners_by_key

\* the for loop has gone through row n
Evaluated(n) == pc \in {"loop", "done"} /\ n < i

SameOwner(a, b) == owner_key(a) = owner_key(b)

\* a task of the same owner, earlier on the board, is READY
ReadyBefore(n) ==
    \E m \in 1..(n - 1) : tasks[m].id \in ReadyIds /\ SameOwner(tasks[m].owner, tasks[n].owner)

\* the owner is the owner of some active worker record
OwnerOfActiveRecord(owner) ==
    \E k \in 1..Len(records) :
        /\ records[k].state \in ActiveStateNames
        /\ records[k].owner # <<>>
        /\ SameOwner(records[k].owner, owner)

\* the collaborator reported the task's spec as present and valid
SpecValid(id) == id \in DOMAIN task_specs /\ task_specs[id].exists /\ task_specs[id].valid

-----------------------------------------------------------------------------
(* The scheduler.                                                          *)

\* C1: no two READY tasks of one invocation have the same normalized owner
\* key, at any point of the pass and in the returned payload.
C1_OneReadyPerOwner ==
    \A m, n \in 1..Len(ready_tasks) :
        m # n => owner_key(ready_tasks[m].owner) # owner_key(ready_tasks[n].owner)

\* C1 witness: "AgA" is READY and the later task of "ag-a", the same owner
\* under normalization, is EXCLUDED as owner_busy.
C1_Witness ==
    /\ Done
    /\ \E k \in 1..Len(ready_tasks) : ready_tasks[k].owner = AgA
    /\ \E k \in 1..Len(excluded_tasks) :
          excluded_tasks[k].owner = AgA2 /\ excluded_tasks[k].reason = "owner_busy"

\* the reason and source C2 expects for a task id with active records
C2_Expected(id) ==
    /\ id \in ExcludedIds
    /\ id \notin ReadyIds
    /\ id \notin DOMAIN conflict_by_task =>
          IF \E k \in ActiveRecordsOf(id) : records[k].pid_alive
          THEN ExcludedWith(id, "active_worker", "pid")
          ELSE ExcludedWith(id, "active_lock", "lock")

\* C2 as stated: in the returned payload every TODO task with a mapped owner
\* whose task id has an active record is EXCLUDED, with active_worker/pid when
\* a record has a live process and active_lock/lock otherwise.
C2_Original ==
    Done => \A n \in 1..Len(tasks) :
        (Candidate(n) /\ ActiveRecordsOf(tasks[n].id) # {}) => C2_Expected(tasks[n].id)

\* C2 amended: the same for every such task that the pass evaluates, i.e.
\* that it reaches before it stops at the max-start limit.
C2_ActiveExcluded ==
    \A n \in 1..Len(tasks) :
        (Candidate(n) /\ ActiveRecordsOf(tasks[n].id) # {} /\ Evaluated(n))
            => C2_Expected(tasks[n].id)

\* C2 witness: a task with a RUNNING record is EXCLUDED active_worker/pid.
C2_Witness ==
    /\ Done
    /\ \E n \in 1..Len(tasks) :
          /\ \E k \in ActiveRecordsOf(tasks[n].id) : records[k].state = "RUNNING"
          /\ ExcludedWith(tasks[n].id, "active_worker", "pid")

\* the premise of C3: a candidate with no active signal on its own id whose
\* owner is busy through a record or through an earlier READY task
C3_Premise(n) ==
    /\ Candidate(n)
    /\ ActiveRecordsOf(tasks[n].id) = {}
    /\ OwnerOfActiveRecord(tasks[n].owner) \/ ReadyBefore(n)

\* C3 as stated: every such task is EXCLUDED with owner_busy / scheduler.
C3_Original ==
    Done => \A n \in 1..Len(tasks) :
        C3_Premise(n) => ExcludedWith(tasks[n].id, "owner_busy", "scheduler")

\* C3 amended: every such task that the pass evaluates is EXCLUDED with
\* owner_busy / scheduler.
C3_OwnerBusy ==
    \A n \in 1..Len(tasks) :
        (C3_Premise(n) /\ Evaluated(n))
            => ExcludedWith(tasks[n].id, "owner_busy", "scheduler")

\* C3 witness: the first task is EXCLUDED for its live worker and the second
\* task, of the same owner and with no record of its own, is owner_busy.
C3_Witness ==
    /\ Done
    /\ Len(tasks) >= 2
    /\ ExcludedWith(tasks[1].id, "active_worker", "pid")
    /\ ActiveRecordsOf(tasks[2].id) = {}
    /\ OwnerOfActiveRecord(tasks[2].owner)
    /\ ExcludedWith(tasks[2].id, "owner_busy", "scheduler")

\* the candidate passes every check of the pass
PassesAllChecks(n) ==
    /\ Candidate(n)
    /\ tasks[n].id \notin DOMAIN conflict_by_task
    /\ tasks[n].id \notin DOMAIN active_by_task
    /\ owner_key(tasks[n].owner) \notin active_owner_keys
    /\ ~ReadyBefore(n)
    /\ SpecValid(tasks[n].id)
    /\ deps_ready(tasks[n].deps, build_indexes(tasks), gates)

\* C4: with a positive limit n at most n tasks are READY; with limit 0 every
\* candidate that passes all checks is READY in the returned payload.
C4_MaxStart ==
    /\ max_start > 0 => Len(ready_tasks) <= max_start
    /\ (Done /\ max_start = 0) =>
          \A n \in 1..Len(tasks) : PassesAllChecks(n) => tasks[n].id \in ReadyIds

\* C4 witness: the limit is 1, one task is READY and the pass stopped with a
\* candidate row still ahead.
C4_Witness ==
    /\ Done
    /\ max_start = 1
    /\ Len(ready_tasks) = 1
    /\ \E n \in i..Len(tasks) : Candidate(n)

\* how often the task id occurs in the two lists together
Occurrences(id) ==
    Cardinality(RowsOf(ready_tasks, id)) + Cardinality(RowsOf(excluded_tasks, id))

\* C5 as stated: every TODO task with a mapped owner is in exactly one of the
\* READY list and the EXCLUDED list, for every max-start value.
C5_Original ==
    Done => \A n \in 1..Len(tasks) : Candidate(n) => Occurrences(tasks[n].id) = 1

\* C5 amended: every TODO task with a mapped owner that the pass evaluates is
\* in exactly one of the two lists, and such a task after the point where the
\* pass stopped at the max-start limit is in neither.
C5_Partition ==
    Done => \A n \in 1..Len(tasks) :
        Candidate(n) => Occurrences(tasks[n].id) = (IF Evaluated(n) THEN 1 ELSE 0)

\* C5 witness: the pass made a candidate READY and stopped at the limit
\* with another candidate left over, which is in neither list.
C5_Witness ==
    /\ Done
    /\ \E n \in 1..Len(tasks) : Candidate(n) /\ Evaluated(n) /\ tasks[n].id \in ReadyIds
    /\ \E n \in 1..Len(tasks) : Candidate(n) /\ ~Evaluated(n) /\ Occurrences(tasks[n].id) = 0

\* C6: a row that is not TODO, or whose owner has no scope, is in neither
\* list, and only READY tasks mark an owner as scheduled.
C6_Omitted ==
    /\ \A n \in 1..Len(tasks) :
          ~Candidate(n) => tasks[n].id \notin ReadyIds \cup ExcludedIds
    /\ scheduled_owner_keys = {ready_tasks[k].owner_key : k \in 1..Len(ready_tasks)}

\* C6 witness: the pass went through a DONE row and through a TODO row of
\* an unmapped owner.
C6_Witness ==
    /\ Done
    /\ \E n \in 1..Len(tasks) : Evaluated(n) /\ tasks[n].status # "TODO"
    /\ \E n \in 1..Len(tasks) :
          Evaluated(n) /\ tasks[n].status = "TODO" /\ tasks[n].owner = Bob

\* the task id has several active records, one with a lock, one with a live
\* process
ConflictShape(id) ==
    /\ Cardinality(ActiveRecordsOf(id)) > 1
    /\ \E k \in ActiveRecordsOf(id) : Truthy(records[k].lock_file)
    /\ \E k \in ActiveRecordsOf(id) : records[k].pid_alive

RecordIds == {records[k].task_id : k \in 1..Len(records)}

OnlyStaleRecords(id) ==
    /\ RowsOf(records, id) # {}
    /\ \A k \in RowsOf(records, id) : records[k].state \in StaleStateNames

-----------------------------------------------------------------------------
(* The reconciler.                                                         *)

\* the state table of C9: does this row of the table apply to the inputs?
TableRow(state, wt_missing, has_pid, has_lock, alive) ==
    CASE state = "ORPHAN_LOCK" -> wt_missing /\ has_lock /\ ~has_pid
      [] state = "ORPHAN_PID" -> wt_missing /\ has_pid /\ ~has_lock
      [] state = "MISSING_WORKTREE" -> wt_missing /\ (has_pid <=> has_lock)
      [] state = "RUNNING" -> ~wt_missing /\ has_pid /\ has_lock /\ alive
      [] state = "LOCK_STALE" -> ~wt_missing /\ has_pid /\ has_lock /\ ~alive
      [] state = "FINALIZING" -> ~wt_missing /\ has_pid /\ ~has_lock /\ alive
      [] state = "FINALIZING_EXITED" -> ~wt_missing /\ has_pid /\ ~has_lock /\ ~alive
      [] state = "LOCKED" -> ~wt_missing /\ has_lock /\ ~has_pid
      [] state = "UNKNOWN" -> ~wt_missing /\ ~has_lock /\ ~has_pid

\* C9: the state of every record is the one and only state whose row of the
\* table applies to the record's five inputs (worktree recorded, worktree
\* exists, liveness file, lock file, process alive); the worktree rows come
\* first, whether or not the process is alive.
C9_StateTable ==
    \A k \in 1..Len(records) :
        LET r == records[k]
        IN  {s \in AllStateNames :
                TableRow(s, r.worktree # None /\ ~r.worktree_exists,
                         r.pid_file # None, r.lock_file # None, r.pid_alive)}
            = {r.state}

\* C9 witness: a record with a liveness file, a live process and a missing
\* worktree is ORPHAN_PID.
C9_Witness ==
    \E k \in 1..Len(records) :
        /\ records[k].state = "ORPHAN_PID"
        /\ records[k].pid_alive
        /\ records[k].worktree = WtGone

\* C10: stale is true exactly for the five stale states, and no state is
\* both active and stale.
C10_Stale ==
    /\ \A k \in 1..Len(records) :
          /\ records[k].stale <=> records[k].state \in StaleStateNames
          /\ ~(records[k].stale /\ records[k].state \in ActiveStateNames)
    /\ \A s \in AllStateNames : ~(is_active_state(s) /\ is_stale_state(s))

\* C10 witness: an ORPHAN_PID record, stale, beside a LOCKED one, not stale.
C10_Witness ==
    /\ \E k \in 1..Len(records) : records[k].state = "ORPHAN_PID" /\ records[k].stale
    /\ \E k \in 1..Len(records) : records[k].state = "LOCKED" /\ ~records[k].stale

-----------------------------------------------------------------------------
(* The liveness check.                                                     *)

\* the pid field is a positive integer in decimal notation
IsPositiveInt(s) == IsDigitStr(s) /\ ParseInt(s) > 0

\* C11: is_pid_alive is true exactly when the pid is a positive integer and
\* the no-op signal succeeds or is refused with permission-denied; it is false
\* for a pid that is not found, empty, non-numeric, zero or negative.
C11_LivenessCheck ==
    (call.fn = "is_pid_alive" /\ call.done) =>
        (call.ret <=> ( /\ IsPositiveInt(call.pid_value)
                        /\ os_kill(ParseInt(call.pid_value)) \in {"ok", "EPERM"} ))

\* the rows of both inventories, tagged with their kind
LoadedRows ==
    {<<"pid", n>> : n \in 1..Len(pid_rows)} \cup {<<"lock", n>> : n \in 1..Len(lock_rows)}

RowAt(r) == IF r[1] = "pid" THEN pid_rows[r[2]] ELSE lock_rows[r[2]]

\* the record of the key is made from this file and from no other
OwnRecord(r) ==
    \E k \in 1..Len(records) :
        /\ records[k].key = RowAt(r).key
        /\ IF r[1] = "pid"
           THEN records[k].pid_file = RowAt(r).pid_file /\ records[k].lock_file = None
           ELSE records[k].lock_file = RowAt(r).lock_file /\ records[k].pid_file = None

\* C12: the key of a file with no task id differs from the key of every
\* other file, orphan or not, and after classification the orphan has a
\* WorkerRecord of its own.
C12_SyntheticKeys ==
    /\ pc # "load" =>
          \A a, b \in LoadedRows :
              (a # b /\ RowAt(a).task_id = <<>>) => RowAt(a).key # RowAt(b).key
    /\ pc \in {"classified", "loop", "done"} =>
          \A a \in LoadedRows : RowAt(a).task_id = <<>> => OwnRecord(a)

\* the keys of the rows handed to classify_records
InputKeys ==
    {pid_rows[n].key : n \in 1..Len(pid_rows)} \cup {lock_rows[n].key : n \in 1..Len(lock_rows)}

\* C13: classify_records returns exactly one record per distinct key of its
\* input rows, in ascending key order.
C13_OnePerKey ==
    pc = "classified" =>
        /\ {records[k].key : k \in 1..Len(records)} = InputKeys
        /\ Len(records) = Cardinality(InputKeys)
        /\ \A k, l \in 1..Len(records) : k < l => StrLess(records[k].key, records[l].key)

\* C13 witness: three keys from rows that repeat a key, handed over in
\* descending key order within the liveness list.
C13_Witness ==
    /\ pc = "classified"
    /\ Len(records) = 3
    /\ Len(pid_rows) + Len(lock_rows) > 3
    /\ Len(pid_rows) = 2
    /\ StrLess(pid_rows[2].key, pid_rows[1].key)

-----------------------------------------------------------------------------
(* Concurrency and effects.                                                *)

\* C14: an inventory scan raises no error, whenever another process
\* deletes a liveness file or a lock file during the scan.
C14_ScanTolerant == scan.pc # "error"

\* C15: the payload of one status invocation is one snapshot: the runtime
\* worker list is the classification of the inventory the scheduler section
\* was computed from, and no READY task has an active worker in the runtime
\* section of the same payload.
C15_AtomicSnapshot ==
    status.pc = "returned" =>
        /\ status.workers = records
        /\ \A r \in 1..Len(status.ready_tasks) :
              ~\E w \in 1..Len(status.workers) :
                  /\ status.workers[w].task_id = status.ready_tasks[r].task_id
                  /\ status.workers[w].state \in ActiveStateNames

\* the runtime section shows an active worker for a task the scheduler
\* section of the same payload reports READY
C15_ReadyAndActive ==
    /\ status.pc = "returned"
    /\ \E r \in 1..Len(status.ready_tasks) :
          \E w \in 1..Len(status.workers) :
              /\ status.workers[w].task_id = status.ready_tasks[r].task_id
              /\ status.workers[w].state \in ActiveStateNames

\* C16: no step of a scheduler computation creates, modifies or deletes the
\* task board file, a lock file or a liveness file.
C16_ReadOnly ==
    [][todo_file' = todo_file /\ orch_dir' = orch_dir /\ lock_dir' = lock_dir]_vars

-----------------------------------------------------------------------------
(* Dependencies.                                                           *)

\* the field is empty or holds blanks only
IsBlank(s) == \A n \in 1..Len(s) : s[n] = " "

\* C17: deps_ready is true for an empty or blank deps field and for the
\* sentinel "-", whatever the task statuses and the gates are.
C17_VacuouslyReady ==
    (call.fn = "deps_ready" /\ call.done /\ (IsBlank(call.deps) \/ call.deps = <<"-">>))
        => call.ret

\* C17 witness: the sentinel was found ready on a board whose tasks are all
\* TODO and whose gate is PENDING.
C17_Witness ==
    /\ call.fn = "deps_ready"
    /\ call.done
    /\ call.deps = <<"-">>
    /\ call.ret
    /\ DOMAIN call.task_status = {T1, T2}
    /\ \A t \in DOMAIN call.task_status : call.task_status[t] = "TODO"
    /\ call.gate_status = Put(EmptyMap, G1, "PENDING")

\* the token names a gate that is DONE or a task whose board status is DONE
TokenDone(tk) ==
    \/ MatchesGateId(tk) /\ tk \in DOMAIN gates /\ gates[tk] = "DONE"
    \/ MatchesTaskId(tk) /\ \E m \in 1..Len(tasks) : tasks[m].id = tk /\ tasks[m].status = "DONE"

\* the deps field is vacuous, or every non-empty token of it is done
DepsResolved(deps) ==
    \/ IsBlank(deps)
    \/ deps = <<"-">>
    \/ LET tokens == SplitComma(deps, <<>>)
       IN  \A n \in 1..Len(tokens) : IsBlank(tokens[n]) \/ TokenDone(Strip(tokens[n]))

\* C18 as stated: every TODO task with an unresolved dependency is EXCLUDED
\* with deps_not_ready / scheduler.
C18_Original ==
    Done => \A n \in 1..Len(tasks) :
        (tasks[n].status = "TODO" /\ ~DepsResolved(tasks[n].deps))
            => ExcludedWith(tasks[n].id, "deps_not_ready", "scheduler")

\* C18 amended: a task whose dependencies are not all resolved (a token of
\* a gate or task that is not DONE or is absent, or of another format) is
\* never READY, and it is EXCLUDED with deps_not_ready / scheduler when the
\* pass evaluates it and it passes the checks that come before the
\* dependency check (its spec was asked for and reported valid).
C18_DepsNotReady ==
    \A n \in 1..Len(tasks) :
        ~DepsResolved(tasks[n].deps) =>
            /\ tasks[n].id \notin ReadyIds
            /\ (Candidate(n) /\ Evaluated(n) /\ SpecValid(tasks[n].id))
                  => ExcludedWith(tasks[n].id, "deps_not_ready", "scheduler")

\* C18 witness: a task that depends on T9-9, which is on no board, and a
\* task that depends on the gate G2, which no gate line declares, are both
\* EXCLUDED with deps_not_ready.
C18_Witness ==
    /\ Done
    /\ \E n \in 1..Len(tasks) :
          tasks[n].deps = T9 /\ ExcludedWith(tasks[n].id, "deps_not_ready", "scheduler")
    /\ \E n \in 1..Len(tasks) :
          tasks[n].deps = G2 /\ ExcludedWith(tasks[n].id, "deps_not_ready", "scheduler")

\* C19: the deps field "none" means no dependencies: deps_ready is true for
\* it on every board, and no task with that field is EXCLUDED with
\* deps_not_ready.
C19_NoneSentinel ==
    /\ deps_ready(NoneWord, build_indexes(tasks), gates)
    /\ \A n \in 1..Len(tasks) :
          tasks[n].deps = NoneWord
              => ~ExcludedWith(tasks[n].id, "deps_not_ready", "scheduler")

\* a task whose deps field is "none" is EXCLUDED with deps_not_ready
C19_NoneExcluded ==
    /\ Done
    /\ \E n \in 1..Len(tasks) :
          tasks[n].deps = NoneWord /\ ExcludedWith(tasks[n].id, "deps_not_ready", "scheduler")

-----------------------------------------------------------------------------
(* Missing inventory directories.                                          *)

\* reasons that rest on a worker signal of the task itself
SignalReasons == {"active_worker", "active_lock", "active_signal_conflict"}

\* C20: a missing inventory directory loads as an empty inventory, and with
\* both directories missing the scheduler sees no worker signal: no record,
\* no active task, no busy owner, no conflict, no task EXCLUDED for a
\* signal, and owner_busy only behind a READY task of the same owner.
C20_MissingDir ==
    /\ (pc # "load" /\ ~orch_dir.exists) => pid_rows = <<>>
    /\ (pc # "load" /\ ~lock_dir.exists) => lock_rows = <<>>
    /\ (pc \in {"loop", "done"} /\ ~orch_dir.exists /\ ~lock_dir.exists) =>
          /\ records = <<>>
          /\ active_by_task = EmptyMap
          /\ active_owner_keys = {}
          /\ conflict_by_task = EmptyMap
          /\ \A k \in 1..Len(excluded_tasks) :
                /\ excluded_tasks[k].reason \notin SignalReasons
                /\ excluded_tasks[k].reason = "owner_busy" =>
                      \E r \in 1..Len(ready_tasks) :
                          SameOwner(ready_tasks[r].owner, excluded_tasks[k].owner)

\* C20 witness: both directories are missing and the pass made a task READY.
C20_Witness ==
    /\ Done
    /\ ~orch_dir.exists
    /\ ~lock_dir.exists
    /\ Len(tasks) = 2
    /\ ready_tasks # <<>>
    /\ tasks[1].id \in ReadyIds

-----------------------------------------------------------------------------
(* The board parser.                                                       *)

\* the text ends with the suffix
EndsWith(text, suffix) ==
    /\ Len(text) >= Len(suffix)
    /\ SubSeq(text, Len(text) - Len(suffix) + 1, Len(text)) = suffix

\* C21: parse_todo on a path where no file exists raises TodoError, the
\* message is "TODO file not found: " followed by the path as pathlib writes
\* it, and nothing is returned: the outcome carries no tasks and no gates.
C21_MissingBoard ==
    (call.fn = "parse_todo" /\ call.done /\ ~call.file.exists) =>
        /\ call.ret.raised = "TodoError"
        /\ call.ret.message = TodoNotFound \o PathStr(call.todo_file)
        /\ EndsWith(call.ret.message, PathStr(call.todo_file))
        /\ DOMAIN call.ret = {"raised", "message"}

\* C21 witness: parse_todo has raised for the missing path "a/a".
C21_Witness ==
    /\ call.fn = "parse_todo"
    /\ call.done
    /\ ~call.file.exists
    /\ call.todo_file = <<"a", "/", "a">>
    /\ call.ret.raised = "TodoError"
    /\ call.ret.message = TodoNotFound \o <<"a", "/", "a">>

-----------------------------------------------------------------------------
(* The board template.                                                     *)

\* C22: once the invocation has run on a repository whose board file was
\* missing or held the empty template with the Area column, the header row
\* of the board file is "| ID | Title | Owner | Deps | Notes | Status |" and
\* no header with an Area column is in the file.  (Every other board file of
\* the inputs has that header from the start.)
C22_CanonicalTemplate ==
    Done =>
        /\ todo_file.exists
        /\ todo_file.header = UserHeader
        /\ todo_file.header # BootstrapHeader

-----------------------------------------------------------------------------
(* The configuration.                                                      *)

\* the tables of the file with the defaults for what the file leaves out
Effective(parsed) == deep_merge(DEFAULT_CONFIG, parsed)

\* a value that is an integer >= 1: a TOML integer, not a boolean or a string
IsColumnIndex(v) == v.type = "int" /\ v.num >= 1

\* some column index of the configuration is not an integer >= 1
BadColumnIndex(parsed) ==
    \E n \in 1..Len(TodoColKeys) : ~IsColumnIndex(Effective(parsed)["todo"].table[TodoColKeys[n]])

\* the owner map that the file gives is empty
EmptyOwnerMap(parsed) ==
    /\ "owners" \in DOMAIN parsed
    /\ IsTable(parsed["owners"])
    /\ DOMAIN parsed["owners"].table = {}

\* the launch backend is a string that names none of the recognized modes,
\* whatever its case and the blanks around it
UnknownBackend(parsed) ==
    LET v == Effective(parsed)["runtime"].table["launch_backend"]
    IN  v.type # "str" \/ LowerStr(Strip(v.text)) \notin LaunchBackends

\* C23: load_config raises ConfigError, and returns no configuration, for
\* every configuration in which a todo column index is not an integer >= 1,
\* the owner map is empty, or the launch backend is not a recognized mode.
C23_RejectsInvalid ==
    (/\ call.fn = "load_config"
     /\ call.done
     /\ \/ BadColumnIndex(call.parsed)
        \/ EmptyOwnerMap(call.parsed)
        \/ UnknownBackend(call.parsed))
        => /\ call.ret.raised = "ConfigError"
           /\ DOMAIN call.ret = {"raised", "message"}

\* load_config has returned a configuration for a file whose id_col is the
\* boolean true
C23_BoolIndexAccepted ==
    /\ call.fn = "load_config"
    /\ call.done
    /\ "todo" \in DOMAIN call.parsed
    /\ "id_col" \in DOMAIN call.parsed["todo"].table
    /\ call.parsed["todo"].table["id_col"] = TomlBool(TRUE)
    /\ call.ret.raised = "none"

-----------------------------------------------------------------------------
(* Session views.                                                          *)

SessionDone == session.pc = "done"

\* the event log has only output-text fragments, all of one stream
OnlyTextDeltas ==
    /\ session.events # <<>>
    /\ \A n \in 1..Len(session.events) :
          /\ IsTextDelta(session.events[n])
          /\ session.events[n].item_id = session.events[1].item_id

\* the event log has output-text fragments of one stream and status events,
\* with a fragment first and last and at least one status event
TextDeltasAroundStatus ==
    /\ Len(session.events) >= 3
    /\ IsTextDelta(session.events[1])
    /\ IsTextDelta(session.events[Len(session.events)])
    /\ \E n \in 1..Len(session.events) : session.events[n] = StatusEvent
    /\ \A n \in 1..Len(session.events) :
          \/ session.events[n] = StatusEvent
          \/ /\ IsTextDelta(session.events[n])
             /\ session.events[n].item_id = session.events[1].item_id

RECURSIVE ConcatDeltas(_)
ConcatDeltas(events) ==
    IF events = <<>> THEN <<>>
    ELSE (IF Head(events).delta = None THEN <<>> ELSE Head(events).delta)
         \o ConcatDeltas(Tail(events))

HasFence(text) == \E n \in 1..Len(text) : text[n] = Fence

BlocksOfKind(blocks, kind) == SelectSeq(blocks, LAMBDA b : b.kind = kind)

\* the displayed blocks show nothing of a status event
NoStatusShown ==
    \A n \in 1..Len(session.view.blocks) :
        /\ session.view.blocks[n].kind # "status"
        /\ session.view.blocks[n].item_type # "status"
        /\ session.view.blocks[n].body # StatusEvent.status

VisibleFragments ==
    \A n \in 1..Len(session.events) :
        session.events[n].delta # None =>
            /\ StripWs(session.events[n].delta) # <<>>
            /\ ~HasFence(session.events[n].delta)

InSourceOrder(blocks) ==
    \A m, n \in 1..Len(blocks) : m < n => blocks[m].src <= blocks[n].src

\* C25: the block sequence made from a JSON event log keeps the order of the
\* source events: a block whose first contributing event is earlier comes
\* first, in the rendered sequence and in the displayed one.
C25_SourceOrder ==
    /\ session.pc \in {"normalize", "done"} => InSourceOrder(session.raw_blocks)
    /\ (SessionDone /\ session.view.source = "jsonl") => InSourceOrder(session.view.blocks)

\* a reasoning fragment followed by an output-text fragment is displayed as
\* the chat block first and the think block second
C25_ChatBeforeThink ==
    /\ SessionDone
    /\ session.events = <<ThinkDelta("", <<"t">>), TextDelta("", <<"a">>)>>
    /\ Len(session.view.blocks) = 2
    /\ session.view.blocks[1].kind = "chat_codex"
    /\ session.view.blocks[1].src = 2
    /\ session.view.blocks[2].kind = "think"
    /\ session.view.blocks[2].src = 1

\* C26: whatever the input and the caller's max_blocks, the view holds at
\* most max_blocks blocks.
C26_AtMostMaxBlocks ==
    SessionDone => Len(session.view.blocks) <= session.max_blocks

\* a capture with a fenced region and max_blocks = 1 gave two blocks
C26_TranscriptNotTruncated ==
    /\ SessionDone
    /\ session.max_blocks = 1
    /\ session.view.source = "transcript"
    /\ Len(session.view.blocks) = 2

\* some line of the log tail parses as a JSON object
TailHasJson ==
    \E n \in 1..Len(session.log_tail) : session.log_tail[n].json # <<>>

\* the view that the raw capture alone renders to
CaptureView ==
    [source |-> "transcript", parsed_events |-> 0,
     blocks |-> FallbackBlocks(session.raw_capture, session.raw_capture,
                               session.max_lines)]

\* C27: a log tail with a line that parses as a JSON object gives a view of
\* source jsonl; a log tail without one gives the view of the raw capture.
C27_TailAuthoritative ==
    /\ (SessionDone /\ TailHasJson) => session.view.source = "jsonl"
    /\ (SessionDone /\ ~TailHasJson) => session.view = CaptureView

\* the log tail held the JSON object {} and the view is a transcript
C27_JsonTailAsTranscript ==
    /\ SessionDone
    /\ session.log_tail = <<JsonLine(EmptyEvent)>>
    /\ session.view.source = "transcript"

\* the view was built from the JSON events
JsonView == SessionDone /\ session.view.source = "jsonl"

IsCommandItemEvent(event, id) ==
    /\ event.item # <<>>
    /\ event.item[1].type \in CommandTypes
    /\ event.item[1].id = id

\* the positions in the log of the command-execution events of the item id
CommandEvents(id) ==
    {n \in 1..Len(session.events) : IsCommandItemEvent(session.events[n], id)}

\* the positions in the view of the command-execution blocks of the item id
CommandBlocks(id) ==
    {n \in 1..Len(session.view.blocks) :
        /\ session.view.blocks[n].kind = "tool_call"
        /\ session.view.blocks[n].item_type \in CommandTypes
        /\ session.view.blocks[n].item_id = id}

SetMax(S) == CHOOSE n \in S : \A m \in S : m <= n
SetMin(S) == CHOOSE n \in S : \A m \in S : n <= m

\* the command text of the latest event of the item id that has one, or the
\* placeholder when none has
LatestCommandText(id) ==
    LET having == {n \in CommandEvents(id) : session.events[n].item[1].command # None}
    IN  IF having = {} THEN <<"(command unavailable)">>
        ELSE session.events[SetMax(having)].item[1].command

ItemIds == {"c1", "c2"}

\* C28: for every item id the displayed sequence holds at most one
\* command-execution tool_call block; later events of the id update that
\* block where it stands, at the place of the first event of the id, and it
\* ends with the status and the label of the latest event and the latest
\* command text.
C28_OneCommandBlockPerId ==
    JsonView =>
        \A id \in ItemIds :
            /\ Cardinality(CommandBlocks(id)) <= 1
            /\ CommandEvents(id) # {} =>
                  /\ Cardinality(CommandBlocks(id)) = 1
                  /\ LET at     == SetMin(CommandBlocks(id))
                         block  == session.view.blocks[at]
                         first  == SetMin(CommandEvents(id))
                         latest == session.events[SetMax(CommandEvents(id))].item[1]
                     IN  /\ block.item_status = CommandState(latest)
                         /\ block.label = CommandLabel(latest)
                         /\ block.body = LatestCommandText(id)
                         /\ block.src = first
                         /\ \A n \in 1..Len(session.view.blocks) :
                               /\ n < at => session.view.blocks[n].src < first
                               /\ n > at => session.view.blocks[n].src > first

\* a command started, a tool was called, the command failed: the view holds
\* the command block first, with the failed status, and the tool call second
C28_Witness ==
    /\ JsonView
    /\ session.events =
          <<ItemEvent("response.output_item.added", CommandItem("c1", <<"x">>, "in_progress")),
            ItemEvent("response.output_item.added", FunctionCallItem("f1")),
            ItemEvent("response.output_item.added", FailedCommandItem("c1", <<"x">>, <<"1">>))>>
    /\ Len(session.view.blocks) = 2
    /\ session.view.blocks[1].item_id = "c1"
    /\ session.view.blocks[1].item_status = "failed"
    /\ session.view.blocks[2].item_id = "f1"

IsItemEventOfType(event, type) == event.item # <<>> /\ event.item[1].type = type

\* the view has at place p the block of the function_call event n
CallBlockAt(p, n) ==
    /\ IsItemEventOfType(session.events[n], "function_call")
    /\ session.view.blocks[p].kind = "tool_call"
    /\ session.view.blocks[p].item_type = "function_call"
    /\ session.view.blocks[p].item_id = session.events[n].item[1].id
    /\ session.view.blocks[p].src = n

\* the view has at place p the block of the function_call_output event n
ResultBlockAt(p, n) ==
    /\ IsItemEventOfType(session.events[n], "function_call_output")
    /\ session.view.blocks[p].kind = "tool_result"
    /\ session.view.blocks[p].item_type = "function_call_output"
    /\ session.view.blocks[p].item_id = session.events[n].item[1].id
    /\ session.view.blocks[p].src = n

\* C29: a function_call item followed by a function_call_output item of
\* another item id gives two blocks next to each other in event order, a
\* tool_call then a tool_result, each with its own item type and item id;
\* no block is a call and a result at once.
C29_CallThenResult ==
    JsonView =>
        /\ \A n \in 1..(Len(session.events) - 1) :
              (/\ IsItemEventOfType(session.events[n], "function_call")
               /\ IsItemEventOfType(session.events[n + 1], "function_call_output")
               /\ session.events[n].item[1].id # session.events[n + 1].item[1].id)
              => \E p \in 1..(Len(session.view.blocks) - 1), m \in 1..n :
                    /\ session.events[m] = session.events[n]
                    /\ CallBlockAt(p, m)
                    /\ ResultBlockAt(p + 1, n + 1)
        /\ \A p \in 1..Len(session.view.blocks) :
              /\ session.view.blocks[p].item_type = "function_call"
                    => session.view.blocks[p].kind = "tool_call"
              /\ session.view.blocks[p].item_type = "function_call_output"
                    => session.view.blocks[p].kind = "tool_result"
        /\ \A n \in 1..Len(session.events) :
              /\ IsItemEventOfType(session.events[n], "function_call")
                    => \E p \in 1..Len(session.view.blocks), m \in 1..n : CallBlockAt(p, m)
              /\ IsItemEventOfType(session.events[n], "function_call_output")
                    => \E p \in 1..Len(session.view.blocks), m \in 1..n :
                          /\ ResultBlockAt(p, m)
                          /\ session.events[m].item[1].id = session.events[n].item[1].id

\* a call of item id f1 and an output of item id f2 were displayed as a
\* tool_call block and a tool_result block
C29_Witness ==
    /\ JsonView
    /\ session.events =
          <<ItemEvent("response.output_item.added", FunctionCallItem("f1")),
            ItemEvent("response.output_item.added", FunctionOutputItem("f2"))>>
    /\ Len(session.view.blocks) = 2
    /\ CallBlockAt(1, 1)
    /\ ResultBlockAt(2, 2)

DisplayKinds ==
    {"chat_agent", "chat_codex", "think", "code", "tool_call", "tool_result", "error",
     "terminal"}

\* no raw block is of a display kind with a visible body
AllFiltered ==
    \A n \in 1..Len(session.raw_blocks) :
        \/ session.raw_blocks[n].kind \notin DisplayKinds
        \/ StripWs(session.raw_blocks[n].body) = <<>>

LastRawBody == StripWs(session.raw_blocks[Len(session.raw_blocks)].body)

\* C30: in a view built from JSON events every block has a display kind and
\* an empty event_type; when every raw block is filtered out the view is one
\* terminal block with the body of the most recent raw block, or the
\* placeholder when that body is blank.
C30_DisplayKindsOnly ==
    JsonView =>
        /\ \A n \in 1..Len(session.view.blocks) :
              /\ session.view.blocks[n].kind \in DisplayKinds
              /\ session.view.blocks[n].event_type = ""
        /\ AllFiltered =>
              /\ Len(session.view.blocks) = 1
              /\ session.view.blocks[1].kind = "terminal"
              /\ session.view.blocks[1].body =
                    IF LastRawBody # <<>> THEN LastRawBody ELSE <<"(No output yet)">>

\* an item that no rule names and a status event gave raw blocks of kinds
\* event and status, and the view is one terminal block with the status text
C30_Witness ==
    /\ JsonView
    /\ session.events =
          <<ItemEvent("response.output_item.added", OtherItem("o1")), StatusEvent>>
    /\ Len(session.raw_blocks) = 2
    /\ session.raw_blocks[1].kind = "event"
    /\ session.raw_blocks[2].kind = "status"
    /\ Len(session.view.blocks) = 1
    /\ session.view.blocks[1].kind = "terminal"
    /\ session.view.blocks[1].body = StatusEvent.status

\* the summary that stands for a command line
SummaryOf(command) ==
    CASE command = RgFiles   -> <<"Searching", " ", "files">>
      [] command = RgPattern -> <<"Searching", " ", "PATTERN", " ", "in", " ", "PATH">>
      [] command = SedRead   -> <<"Reading", " ", "FILE">>
      [] command = SedEdit   -> <<"Editing", " ", "FILE">>
      [] OTHER               -> command

\* C31: the body of a command-execution tool_call block is the summary of
\* the command (Searching files, Searching PATTERN in PATH, Reading FILE,
\* Editing FILE), not the raw command line.
C31_CommandSummary ==
    JsonView =>
        \A n \in CommandBlocks("c1") :
            session.view.blocks[n].body = SummaryOf(LatestCommandText("c1"))

\* the command rg --files started and completed, and the body of its block
\* is the command line itself
C31_RawCommandShown ==
    /\ JsonView
    /\ session.events =
          <<ItemEvent("response.output_item.added", CommandItem("c1", RgFiles, "in_progress")),
            ItemEvent("response.output_item.added", CommandItem("c1", RgFiles, "completed"))>>
    /\ Len(session.view.blocks) = 1
    /\ session.view.blocks[1].item_status = "completed"
    /\ session.view.blocks[1].body = RgFiles

-----------------------------------------------------------------------------
(* The order of the exclusion checks.                                      *)

\* the task id has exactly one output row: EXCLUDED with the reason and source
OnlyExcludedWith(id, reason, source) ==
    /\ id \notin ReadyIds
    /\ Cardinality(RowsOf(excluded_tasks, id)) = 1
    /\ ExcludedWith(id, reason, source)

\* the owner of row n is busy: an active record names the owner, or an
\* earlier task of the owner is READY
OwnerIsBusy(n) ==
    owner_key(tasks[n].owner) \in active_owner_keys \/ ReadyBefore(n)

SpecMissing(id) == id \in DOMAIN task_specs /\ ~task_specs[id].exists

SpecInvalid(id) ==
    id \in DOMAIN task_specs /\ task_specs[id].exists /\ ~task_specs[id].valid

\* C32: when several exclusion conditions hold for a TODO task the reason is
\* that of the first failing check in the order active_signal_conflict,
\* active signal on the task id, owner_busy, missing_task_spec,
\* invalid_task_spec, deps_not_ready; every reason but the active signal
\* has source scheduler.
C32_FirstFailingCheck ==
    \A n \in 1..Len(tasks) :
        (Candidate(n) /\ Evaluated(n)) =>
            LET id == tasks[n].id
            IN  IF id \in DOMAIN conflict_by_task
                THEN OnlyExcludedWith(id, "active_signal_conflict", "scheduler")
                ELSE IF id \in DOMAIN active_by_task
                THEN /\ OnlyExcludedWith(id, active_by_task[id].reason,
                                         active_by_task[id].source)
                     /\ active_by_task[id].source \in {"pid", "lock"}
                ELSE IF OwnerIsBusy(n)
                THEN OnlyExcludedWith(id, "owner_busy", "scheduler")
                ELSE IF SpecMissing(id)
                THEN OnlyExcludedWith(id, "missing_task_spec", "scheduler")
                ELSE IF SpecInvalid(id)
                THEN OnlyExcludedWith(id, "invalid_task_spec", "scheduler")
                ELSE IF ~DepsResolved(tasks[n].deps)
                THEN OnlyExcludedWith(id, "deps_not_ready", "scheduler")
                ELSE id \in ReadyIds /\ id \notin ExcludedIds

\* a task with no signal of its own, whose owner is busy through an active
\* record and whose dependency is unresolved, is EXCLUDED as owner_busy
C32_Witness ==
    /\ Done
    /\ \E n \in 1..Len(tasks) :
          /\ Candidate(n)
          /\ tasks[n].id \notin DOMAIN active_by_task
          /\ tasks[n].id \notin DOMAIN conflict_by_task
          /\ owner_key(tasks[n].owner) \in active_owner_keys
          /\ ~DepsResolved(tasks[n].deps)
          /\ ExcludedWith(tasks[n].id, "owner_busy", "scheduler")

-----------------------------------------------------------------------------
(* Delta buffers.                                                          *)

IsDelta(event) == IsTextDelta(event) \/ IsThinkDelta(event)

\* events n and m are fragments of one kind and one stream id
SameStream(n, m) ==
    /\ IsTextDelta(session.events[n]) = IsTextDelta(session.events[m])
    /\ session.events[n].item_id = session.events[m].item_id

\* every event from m to n is a fragment: no flush between them
OneRun(m, n) == \A k \in m..n : IsDelta(session.events[k])

\* fragment n is the first of its stream since the last flush
FirstOfRun(n) ==
    /\ IsDelta(session.events[n])
    /\ ~\E m \in 1..(n - 1) : OneRun(m, n) /\ SameStream(m, n)

\* the fragments of the stream of n from n to the next flush, joined in
\* arrival order
RECURSIVE RunText(_, _)
RunText(n, k) ==
    IF k > Len(session.events) \/ ~IsDelta(session.events[k]) THEN <<>>
    ELSE (IF SameStream(n, k) THEN session.events[k].delta ELSE <<>>) \o RunText(n, k + 1)

\* the blocks made of the fragments that event n starts
BlocksFrom(n) ==
    {p \in 1..Len(session.blocks) :
        /\ session.blocks[p].src = n
        /\ session.blocks[p].kind \in {"chat_codex", "think", "code"}}

\* every event has been rendered and the last flush is done
Rendered == session.pc \in {"normalize", "fallback", "done"} /\ session.events # <<>>

\* C33: fragments are held back per stream id until a flush, at a non-delta
\* event or at the end of the log; the flush joins the fragments of each
\* stream id in arrival order into blocks of that stream id alone, and no
\* fragment is lost or emitted twice.
C33_BufferedPerStream ==
    /\ session.pc = "events" =>
          \A p \in 1..Len(session.blocks), k \in 1..(session.idx - 1) :
              (OneRun(k, session.idx - 1) /\ IsDelta(session.events[k]))
                  => session.blocks[p].src < k
    /\ Rendered =>
          \A n \in 1..Len(session.events) :
              (/\ FirstOfRun(n)
               /\ StripWs(RunText(n, n)) # <<>>
               /\ ~HasFence(RunText(n, n)))
              => /\ Cardinality(BlocksFrom(n)) = 1
                 /\ \A p \in BlocksFrom(n) :
                       /\ session.blocks[p].body = StripWs(RunText(n, n))
                       /\ session.blocks[p].item_id = session.events[n].item_id
                       /\ session.blocks[p].kind =
                             IF IsTextDelta(session.events[n]) THEN "chat_codex" ELSE "think"

\* the fragment "a", an event without a type and the fragment "a" again:
\* the view holds the text once
C33_RepeatedTextDropped ==
    /\ JsonView
    /\ session.events = <<TextDelta("", <<"a">>), EmptyEvent, TextDelta("", <<"a">>)>>
    /\ Len(session.blocks) = 1
    /\ Len(session.view.blocks) = 1
    /\ session.view.blocks[1].body = <<"a">>

-----------------------------------------------------------------------------
(* Merging in the displayed sequence.                                      *)

\* the pieces of a body between blank-line separators
RECURSIVE SplitBlankLines(_, _)
SplitBlankLines(body, cur) ==
    IF body = <<>> THEN <<cur>>
    ELSE IF Len(body) >= 2 /\ body[1] = "\n" /\ body[2] = "\n"
    THEN <<cur>> \o SplitBlankLines(SubSeq(body, 3, Len(body)), <<>>)
    ELSE SplitBlankLines(Tail(body), Append(cur, Head(body)))

\* the pieces of the bodies of the displayed blocks, in order, each with the
\* place of its block
RECURSIVE PiecesFrom(_)
PiecesFrom(p) ==
    IF p > Len(session.view.blocks) THEN <<>>
    ELSE LET pieces == SplitBlankLines(session.view.blocks[p].body, <<>>)
         IN  [k \in 1..Len(pieces) |-> [at |-> p, body |-> pieces[k]]] \o PiecesFrom(p + 1)

\* the raw blocks that are displayed: a display kind and a visible body
Displayed ==
    SelectSeq(session.raw_blocks,
              LAMBDA b : b.kind \in DisplayKinds /\ StripWs(b.body) # <<>>)

SameDisplayFields(a, b) ==
    /\ a.kind = b.kind
    /\ a.label = b.label
    /\ a.item_type = b.item_type
    /\ a.role = b.role
    /\ a.item_id = b.item_id

\* C34: the displayed sequence is the sequence of the displayed raw blocks
\* with some neighbours joined by a blank line; blocks are joined only when
\* they are of kind chat_agent, chat_codex, think or terminal and agree on
\* kind, label, item type, role and item id, so chat blocks of different
\* item ids stay separate, in their order.
C34_MergeOnlyAdjacentEqual ==
    (JsonView /\ Displayed # <<>>) =>
        LET pieces == PiecesFrom(1)
        IN  /\ Len(pieces) = Len(Displayed)
            /\ \A k \in 1..Len(pieces) :
                  /\ pieces[k].body = Displayed[k].body
                  /\ SameDisplayFields(session.view.blocks[pieces[k].at], Displayed[k])
            /\ \A k \in 1..(Len(pieces) - 1) :
                  pieces[k].at = pieces[k + 1].at =>
                      session.view.blocks[pieces[k].at].kind
                          \in {"chat_agent", "chat_codex", "think", "terminal"}

\* a fragment of stream s1, a status event and a fragment of the default
\* stream: two chat_codex blocks of different item ids, displayed apart
C34_Witness ==
    /\ JsonView
    /\ session.events = <<TextDelta("s1", <<"a">>), StatusEvent, TextDelta("", <<"a">>)>>
    /\ Len(session.view.blocks) = 2
    /\ session.view.blocks[1].kind = "chat_codex"
    /\ session.view.blocks[1].item_id = "s1"
    /\ session.view.blocks[2].kind = "chat_codex"
    /\ session.view.blocks[2].item_id = ""

-----------------------------------------------------------------------------
(* Repeated blocks in the raw sequence.                                    *)

SameSevenFields(a, b) ==
    /\ a.kind = b.kind
    /\ a.body = b.body
    /\ a.event_type = b.event_type
    /\ a.item_type = b.item_type
    /\ a.role = b.role
    /\ a.item_id = b.item_id
    /\ a.item_status = b.item_status

\* the number of blocks that were there when event n arrived and was flushed
\* for: the blocks of earlier events
BlocksBefore(n) == Cardinality({p \in 1..Len(session.blocks) : session.blocks[p].src < n})

\* event n is no fragment, has been rendered, and makes exactly one block
OneBlockEvent(n) ==
    /\ n < session.idx
    /\ ~IsDelta(session.events[n])
    /\ Len(event_to_blocks(session.events[n], n)) = 1

\* C35: no two consecutive blocks of the raw sequence agree on kind, body,
\* event type, item type, role, item id and item status; the block of an
\* event is dropped when it agrees in these fields with the block just
\* before it and is kept otherwise, also when an equal block stands further
\* back.
C35_NoRepeatedNeighbour ==
    session.pc \in {"events", "normalize", "fallback", "done"} =>
        /\ \A p \in 1..(Len(session.blocks) - 1) :
              ~SameSevenFields(session.blocks[p], session.blocks[p + 1])
        /\ \A n \in 1..Len(session.events) :
              OneBlockEvent(n) =>
                  LET block  == event_to_blocks(session.events[n], n)[1]
                      before == BlocksBefore(n)
                      kept   == /\ before < Len(session.blocks)
                                /\ session.blocks[before + 1] = block
                  IN  IF before > 0 /\ SameSevenFields(session.blocks[before], block)
                      THEN ~kept
                      ELSE kept

\* the same tool call twice and then a status event: the raw sequence holds
\* the call once
C35_Witness ==
    /\ Rendered
    /\ session.events =
          <<ItemEvent("response.output_item.added", FunctionCallItem("f1")),
            ItemEvent("response.output_item.added", FunctionCallItem("f1")),
            StatusEvent>>
    /\ Len(session.blocks) = 2
    /\ session.blocks[1].kind = "tool_call"
    /\ session.blocks[2].kind = "status"

-----------------------------------------------------------------------------
(* Gate markers.                                                           *)

\* the starts of the gate markers of a line
MarkerStarts(line) == {s \in 1..Len(line) : GateMatchAt(line, s) > 0}

\* the (line, start) pairs of the gate markers of a board text
MarkersOf(lines) ==
    UNION {{<<n, s>> : s \in MarkerStarts(lines[n])} : n \in 1..Len(lines)}

MarkerId(lines, o) == UpToBlank(GateToken(lines[o[1]], o[2]))

MarkerText(lines, o) == ParenText(GateToken(lines[o[1]], o[2]), 1)

\* C36: every gate marker of the board text, on whatever line, has an entry
\* under the marker token up to its first blank; the entry of a gate that
\* the text marks once is DONE exactly when the parenthesised text equals a
\* done keyword ignoring case, and PENDING otherwise.
C36_EveryMarkerCounts ==
    (call.fn = "parse_gates" /\ call.done) =>
        \A o \in MarkersOf(call.lines) :
            /\ MarkerId(call.lines, o) \in DOMAIN call.ret
            /\ (\A q \in MarkersOf(call.lines) :
                    MarkerId(call.lines, q) = MarkerId(call.lines, o) => q = o)
               => call.ret[MarkerId(call.lines, o)] =
                     IF LowerStr(MarkerText(call.lines, o)) \in done_keywords
                     THEN "DONE" ELSE "PENDING"

\* a board text of the one line with the markers of G1 and G2, both DONE:
\* the gate map has G1 and has no entry for G2
C36_SecondMarkerIgnored ==
    /\ call.fn = "parse_gates"
    /\ call.done
    /\ call.lines = <<Marker(G1, <<"D", "O", "N", "E">>) \o <<" ">>
                      \o Marker(G2, <<"D", "O", "N", "E">>)>>
    /\ call.ret = Put(EmptyMap, G1, "DONE")

-----------------------------------------------------------------------------
(* Live processes and READY tasks.                                         *)

\* C37: no task is READY while the records of the invocation hold a record
\* of its task id whose process is alive, whatever the state of the record.
C37_NoReadyWhileAlive ==
    \A k \in 1..Len(records) :
        records[k].pid_alive => records[k].task_id \notin ReadyIds

\* the liveness file of T1-1 names a live process and a worktree that is
\* gone: the record is ORPHAN_PID, and T1-1 is READY in the returned payload
C37_AliveOrphanReady ==
    /\ Done
    /\ \E k \in 1..Len(records) :
          /\ records[k].task_id = T1
          /\ records[k].state = "ORPHAN_PID"
          /\ records[k].pid_alive
    /\ T1 \in ReadyIds

-----------------------------------------------------------------------------
(* One record per task id.                                                 *)

\* the inventories have been loaded from the directories and classified
Classified == pc \in {"classified", "loop", "done"}

\* the names of the liveness files whose task_id field is id
PidFilesNaming(id) ==
    IF ~orch_dir.exists THEN {}
    ELSE {stem \o DotPid : stem \in {st \in DOMAIN orch_dir.files : orch_dir.files[st].task_id = id}}

\* the task ids that the liveness files name
NamedByPidFiles ==
    IF ~orch_dir.exists THEN {}
    ELSE {orch_dir.files[st].task_id : st \in DOMAIN orch_dir.files} \ {<<>>}

\* C38: on inventories loaded from the directories every record's task_id
\* is its key, no two records have the same task_id, so no task id has more
\* than one active record; of the liveness files that name one task id
\* exactly one is the pid_file of a record.
C38_OneRecordPerTaskId ==
    Classified =>
        /\ \A k \in 1..Len(records) : records[k].task_id = records[k].key
        /\ \A j, k \in 1..Len(records) :
              j # k => records[j].task_id # records[k].task_id
        /\ \A k \in 1..Len(records) :
              Cardinality(ActiveRecordsOf(records[k].task_id)) <= 1
        /\ \A id \in NamedByPidFiles :
              Cardinality({k \in 1..Len(records) :
                              records[k].pid_file \in PidFilesNaming(id)}) = 1

\* w1.pid and w2.pid both name T1-1: the one record of T1-1 is that of w2.pid
C38_Witness ==
    /\ Classified
    /\ PidFilesNaming(T1) = {StemW1 \o DotPid, StemW2 \o DotPid}
    /\ Cardinality(RowsOf(records, T1)) = 1
    /\ \A k \in RowsOf(records, T1) : records[k].pid_file = StemW2 \o DotPid

-----------------------------------------------------------------------------
(* The states that loaded inventories can have.                            *)

\* C39: on inventories loaded from the directories no record is UNKNOWN,
\* every record has a liveness file, a lock file or both (so a record is
\* MISSING_WORKTREE only with both), and pid_alive is true only for records
\* that have a liveness file.
C39_NeverUnknown ==
    Classified =>
        \A k \in 1..Len(records) :
            /\ records[k].state # "UNKNOWN"
            /\ Truthy(records[k].pid_file) \/ Truthy(records[k].lock_file)
            /\ records[k].state = "MISSING_WORKTREE" =>
                  Truthy(records[k].pid_file) /\ Truthy(records[k].lock_file)
            /\ records[k].pid_alive => Truthy(records[k].pid_file)

\* a liveness file and a lock file of T1-1 whose worktree is gone: the record
\* is MISSING_WORKTREE and names both files
C39_Witness ==
    /\ Classified
    /\ \E k \in 1..Len(records) :
          /\ records[k].state = "MISSING_WORKTREE"
          /\ records[k].task_id = T1
          /\ records[k].pid_file = StemW1 \o DotPid
          /\ records[k].lock_file = StemS1 \o DotLock

-----------------------------------------------------------------------------
(* Rows of a scan and the versions of the files.                           *)

\* the row is the row of one version of a file of the directory
RowOfOneVersion(row) ==
    \E stem \in RewriteStems, v \in ScanVersions(scan.kind) :
        row = ScanRow(scan.kind, stem, v)

\* C40: every row of a scan carries the fields of one version of its file,
\* also when another process rewrites or deletes the file during the scan:
\* no row mixes two versions, and no row has an empty task id when every
\* version of the file names a task.
C40_RowsOfOneVersion ==
    scan.pc # "none" =>
        \A n \in 1..Len(scan.rows) : RowOfOneVersion(scan.rows[n])

\* w1.lock named T1-1 of AgA, then T1-2 of AgB: the finished scan has a row
\* with task T1-1 and owner AgB
C40_MixedRow ==
    /\ scan.pc = "done"
    /\ scan.kind = "lock"
    /\ \E n \in 1..Len(scan.rows) :
          /\ scan.rows[n].task_id = T1
          /\ scan.rows[n].owner = AgB
          /\ scan.rows[n].lock_file = StemW1 \o DotLock

====
